---------------------------- MODULE Spec2Model ----------------------------
(***************************************************************************)
(* A model of the three command-line tools of the frontend-react-component *)
(* skill: the component generator (generate-component.js, lines 1-526),    *)
(* the style validator (generate-component.js, lines 527-789) and the type  *)
(* generator (type-generator.ts); and of the hooks useDebounce and          *)
(* useDebouncedSearch the skill ships (useDebounce.ts, lines 1-131).        *)
(*                                                                         *)
(* Text is modelled as a sequence.  CSS text, component names and GraphQL   *)
(* text are sequences of one-character strings.  The component templates,   *)
(* the barrel file and the test stub are sequences of larger pieces (a      *)
(* placeholder or a line segment of the source) into which the characters   *)
(* of the component name are spliced.                                       *)
(***************************************************************************)
EXTENDS Integers, Sequences, FiniteSets, TLC

VARIABLES
  pc,             \* generator: position of the process in main/createComponent
  componentName,  \* generator: args[0]
  options,        \* generator: the options object main builds (a field may be absent)
  dirExists,      \* file system: components/<componentName>/ exists
  files,          \* file system: file name -> content, inside that directory
  written,        \* generator: the file names this invocation has written so far
  exitCode,       \* generator: process exit status, "none" while running
  thrown,         \* generator: the error main's catch received, "none" if none
  lastRun,        \* generator: type/styled/typed of the last invocation that returned
                  \* normally with no failed invocation since, or NoRun
  cssPc,          \* validator: "start", then "validated"
  cssSource,      \* validator: the text of the CSS module
  cssIssues,      \* validator: the issues validateCSS returned
  gqlPc,          \* type generator: "start", then "returned" or "threw"
  gqlSchema,      \* type generator: the GraphQL schema text
  gqlTypeName,    \* type generator: the type name asked for
  gqlResult,      \* type generator: what generateFromGraphQL returned or threw
  valPc,          \* validator CLI: "start", "dir", "watching", "exited"
  valArgs,        \* validator CLI: process.argv.slice(2)
  vfs,            \* validator CLI: the file system, path -> directory or file
  valTodo,        \* validator CLI: dir mode, the modules still to validate
  valReports,     \* validator CLI: every validateFile call so far, file and issues
  valTotal,       \* validator CLI: dir mode, totalIssues
  valLog,         \* validator CLI: what was printed, one entry per message
  valExit,        \* validator CLI: process exit status, "none" while running
  watcher,        \* validator CLI: "none", "open" after chokidar.watch, "closed"
  pending,        \* validator CLI: change events the watcher has not delivered yet
  nEvents,        \* validator CLI: the number of change events so far
  tgPc,           \* type generator CLI: "start", then "exited"
  tgArgs,         \* type generator CLI: process.argv.slice(2)
  tgFiles,        \* type generator CLI: the file system, file name -> content
  tgExit,         \* type generator CLI: process exit status, "none" while running
  tgError,        \* type generator CLI: the message printed before process.exit(1)
  jsonPc,         \* generateFromJSON: "start", then "returned" or "threw"
  jsonGiven,      \* generateFromJSON: the parsed JSON schema it is given
  jsonTypeName,   \* generateFromJSON: the type name asked for
  jsonResult,     \* generateFromJSON: what it returned or threw
  hkQuery,        \* useDebouncedSearch: the query state
  hkTimer,        \* useDebounce: whether the timeout of the last query change is pending
  hkDebounced,    \* useDebounce: debouncedValue, the debounced query
  hkResults,      \* useDebouncedSearch: the results state, 0 for [] or the number of
                  \* the search call whose response was stored
  hkLoading,      \* useDebouncedSearch: the loading state
  hkError,        \* useDebouncedSearch: the error state, 0 for null or the number of
                  \* the search call whose rejection was stored
  hkRef,          \* useDebouncedSearch: abortControllerRef.current, 0 for null or the
                  \* number of the search call the controller was made for
  hkAborted,      \* useDebouncedSearch: the controllers whose signal is aborted
  hkInflight,     \* useDebouncedSearch: the search calls whose promise is pending
  hkCalls,        \* useDebouncedSearch: the number of search calls so far
  hkCleanup       \* useDebouncedSearch: whether the last effect returned a cleanup

genVars ==
  <<pc, componentName, options, dirExists, files, written, exitCode, thrown, lastRun>>

cssVars == <<cssPc, cssSource, cssIssues>>

gqlVars == <<gqlPc, gqlSchema, gqlTypeName, gqlResult>>

valVars ==
  <<valPc, valArgs, vfs, valTodo, valReports, valTotal, valLog, valExit, watcher,
    pending, nEvents>>

tgVars == <<tgPc, tgArgs, tgFiles, tgExit, tgError>>

jsonVars == <<jsonPc, jsonGiven, jsonTypeName, jsonResult>>

hookVars ==
  <<hkQuery, hkTimer, hkDebounced, hkResults, hkLoading, hkError, hkRef, hkAborted,
    hkInflight, hkCalls, hkCleanup>>

vars == <<genVars, cssVars, gqlVars, valVars, tgVars, jsonVars, hookVars>>

(***************************************************************************)
(* JavaScript strings                                                      *)
(***************************************************************************)
UpperChars == <<"A","B","C","D","E","F","G","H","I","J","K","L","M",
                "N","O","P","Q","R","S","T","U","V","W","X","Y","Z">>
LowerChars == <<"a","b","c","d","e","f","g","h","i","j","k","l","m",
                "n","o","p","q","r","s","t","u","v","w","x","y","z">>
DigitChars == {"0","1","2","3","4","5","6","7","8","9"}

Range(s) == {s[i] : i \in DOMAIN s}

\* String.prototype.toLowerCase, character by character
toLowerCase(s) ==
  [i \in DOMAIN s |->
     IF \E k \in DOMAIN UpperChars : UpperChars[k] = s[i]
     THEN LowerChars[CHOOSE k \in DOMAIN UpperChars : UpperChars[k] = s[i]]
     ELSE s[i]]

\* pat occurs in s at position i
MatchesAt(s, pat, i) ==
  /\ i >= 1
  /\ i + Len(pat) - 1 <= Len(s)
  /\ SubSeq(s, i, i + Len(pat) - 1) = pat

\* String.prototype.includes
includes(s, sub) == \E i \in 1..(Len(s) + 1) : MatchesAt(s, sub, i)

\* position of the first occurrence of pat in s at or after i, 0 when there is none
NextMatch(s, pat, i) ==
  LET hits == {j \in i..Len(s) : MatchesAt(s, pat, j)}
  IN  IF hits = {} THEN 0 ELSE CHOOSE j \in hits : \A k \in hits : j <= k

\* The text a replacement string stands for (ECMAScript GetSubstitution): in the
\* string given as second argument of replace, "$$" inserts one "$" and "$&" the
\* matched text; a "$" followed by anything else a component name can hold (the
\* patterns here have no capture group) is kept as it is.
RECURSIVE GetSubstitution(_, _)
GetSubstitution(repl, matched) ==
  IF repl = <<>> THEN <<>>
  ELSE IF Len(repl) >= 2 /\ repl[1] = "$" /\ repl[2] = "$"
       THEN <<"$">> \o GetSubstitution(SubSeq(repl, 3, Len(repl)), matched)
  ELSE IF Len(repl) >= 2 /\ repl[1] = "$" /\ repl[2] = "&"
       THEN matched \o GetSubstitution(SubSeq(repl, 3, Len(repl)), matched)
  ELSE <<repl[1]>> \o GetSubstitution(Tail(repl), matched)

\* s.replace(/pat/g, repl) for a pattern that is literal text: every occurrence,
\* left to right, the search resuming after each match
RECURSIVE ReplaceFrom(_, _, _, _)
ReplaceFrom(s, pat, repl, i) ==
  LET j == NextMatch(s, pat, i)
  IN  IF j = 0 THEN SubSeq(s, i, Len(s))
      ELSE SubSeq(s, i, j - 1) \o GetSubstitution(repl, pat)
             \o ReplaceFrom(s, pat, repl, j + Len(pat))

replaceAll(s, pat, repl) == ReplaceFrom(s, pat, repl, 1)

(***************************************************************************)
(* The templates of the component generator                                *)
(***************************************************************************)
(* templates.simple, generate-component.js lines 7-28: the template text cut at
   its placeholders, line ends and backquotes; the piece "U+0060" stands for a
   backquote, which a TLA+ string cannot hold. *)
template_simple ==
  <<
     "import React from 'react';\n", "import styles from './", "{{ComponentName}}", ".module.css';\n", "\n",
     "export interface ", "{{ComponentName}}", "Props {\n", "  children?: React.ReactNode;\n",
     "  className?: string;\n", "  variant?: 'primary' | 'secondary';\n", "}\n", "\n", "export const ",
     "{{ComponentName}}", ": React.FC<", "{{ComponentName}}", "Props> = ({\n", "  children,\n",
     "  className,\n", "  variant = 'primary'\n", "}) => {\n", "  return (\n", "    <div className={",
     "U+0060", "${styles.", "{{componentName}}", "} ${styles[variant]} ${className || ''}", "U+0060", "}>\n",
     "      {children}\n", "    </div>\n", "  );\n", "};\n", "\n", "export default ", "{{ComponentName}}", ";"
  >>

(* templates.interactive, generate-component.js lines 30-68: the template text cut at
   its placeholders, line ends and backquotes; the piece "U+0060" stands for a
   backquote, which a TLA+ string cannot hold. *)
template_interactive ==
  <<
     "import React, { useState, useCallback } from 'react';\n", "import styles from './",
     "{{ComponentName}}", ".module.css';\n", "\n", "export interface ", "{{ComponentName}}", "Props {\n",
     "  initialValue?: boolean;\n", "  onToggle?: (value: boolean) => void;\n", "  disabled?: boolean;\n",
     "  className?: string;\n", "}\n", "\n", "export const ", "{{ComponentName}}", ": React.FC<",
     "{{ComponentName}}", "Props> = ({\n", "  initialValue = false,\n", "  onToggle,\n",
     "  disabled = false,\n", "  className\n", "}) => {\n",
     "  const [isActive, setIsActive] = useState(initialValue);\n", "\n",
     "  const handleToggle = useCallback(() => {\n", "    if (disabled) return;\n", "\n",
     "    const newValue = !isActive;\n", "    setIsActive(newValue);\n", "    onToggle?.(newValue);\n",
     "  }, [isActive, disabled, onToggle]);\n", "\n", "  return (\n", "    <button\n", "      className={",
     "U+0060", "${styles.", "{{componentName}}",
     "} ${isActive ? styles.active : ''} ${disabled ? styles.disabled : ''} ${className || ''}", "U+0060",
     "}\n", "      onClick={handleToggle}\n", "      disabled={disabled}\n", "      type=\"button\"\n",
     "    >\n", "      {isActive ? 'Active' : 'Inactive'}\n", "    </button>\n", "  );\n", "};\n", "\n",
     "export default ", "{{ComponentName}}", ";"
  >>

(* templates.data, generate-component.js lines 70-136: the template text cut at
   its placeholders, line ends and backquotes; the piece "U+0060" stands for a
   backquote, which a TLA+ string cannot hold. *)
template_data ==
  <<
     "import React, { useEffect, useState } from 'react';\n", "import styles from './", "{{ComponentName}}",
     ".module.css';\n", "\n", "export interface DataItem {\n", "  id: string;\n", "  name: string;\n",
     "  // Add other properties based on your API response\n", "}\n", "\n", "export interface ",
     "{{ComponentName}}", "Props {\n", "  url: string;\n",
     "  renderItem?: (item: DataItem) => React.ReactNode;\n", "  className?: string;\n", "}\n", "\n",
     "export const ", "{{ComponentName}}", ": React.FC<", "{{ComponentName}}", "Props> = ({\n", "  url,\n",
     "  renderItem,\n", "  className\n", "}) => {\n",
     "  const [data, setData] = useState<DataItem[]>([]);\n",
     "  const [loading, setLoading] = useState(true);\n",
     "  const [error, setError] = useState<string | null>(null);\n", "\n", "  useEffect(() => {\n",
     "    const fetchData = async () => {\n", "      try {\n", "        setLoading(true);\n",
     "        setError(null);\n", "\n", "        const response = await fetch(url);\n",
     "        if (!response.ok) {\n", "          throw new Error(", "U+0060",
     "HTTP error! status: ${response.status}", "U+0060", ");\n", "        }\n", "\n",
     "        const result = await response.json();\n", "        setData(result);\n",
     "      } catch (err) {\n",
     "        setError(err instanceof Error ? err.message : 'An error occurred');\n", "      } finally {\n",
     "        setLoading(false);\n", "      }\n", "    };\n", "\n", "    fetchData();\n", "  }, [url]);\n",
     "\n", "  if (loading) {\n", "    return <div className={", "U+0060", "${styles.", "{{componentName}}",
     "} ${styles.loading} ${className || ''}", "U+0060", "}>Loading...</div>;\n", "  }\n", "\n",
     "  if (error) {\n", "    return <div className={", "U+0060", "${styles.", "{{componentName}}",
     "} ${styles.error} ${className || ''}", "U+0060", "}>Error: {error}</div>;\n", "  }\n", "\n",
     "  return (\n", "    <div className={", "U+0060", "${styles.", "{{componentName}}",
     "} ${className || ''}", "U+0060", "}>\n", "      {data.map((item) => (\n",
     "        <div key={item.id} className={styles.item}>\n",
     "          {renderItem ? renderItem(item) : <div>{item.name}</div>}\n", "        </div>\n",
     "      ))}\n", "    </div>\n", "  );\n", "};\n", "\n", "export default ", "{{ComponentName}}", ";"
  >>

(* templates.form, generate-component.js lines 138-260: the template text cut at
   its placeholders, line ends and backquotes; the piece "U+0060" stands for a
   backquote, which a TLA+ string cannot hold. *)
template_form ==
  <<
     "import React, { useState, useCallback, FormEvent } from 'react';\n", "import styles from './",
     "{{ComponentName}}", ".module.css';\n", "\n", "export interface FormData {\n", "  email: string;\n",
     "  password: string;\n", "  // Add other form fields as needed\n", "}\n", "\n",
     "export interface FormErrors {\n", "  email?: string;\n", "  password?: string;\n", "}\n", "\n",
     "export interface ", "{{ComponentName}}", "Props {\n",
     "  onSubmit: (data: FormData) => Promise<void>;\n", "  initialValues?: Partial<FormData>;\n",
     "  submitButtonText?: string;\n", "  className?: string;\n", "}\n", "\n", "export const ",
     "{{ComponentName}}", ": React.FC<", "{{ComponentName}}", "Props> = ({\n", "  onSubmit,\n",
     "  initialValues,\n", "  submitButtonText = 'Submit',\n", "  className\n", "}) => {\n",
     "  const [formData, setFormData] = useState<FormData>({\n", "    email: initialValues?.email || '',\n",
     "    password: initialValues?.password || ''\n", "  });\n", "\n",
     "  const [errors, setErrors] = useState<FormErrors>({});\n",
     "  const [isSubmitting, setIsSubmitting] = useState(false);\n", "\n",
     "  const validateForm = useCallback((): boolean => {\n", "    const newErrors: FormErrors = {};\n",
     "\n", "    if (!formData.email) {\n", "      newErrors.email = 'Email is required';\n",
     "    } else if (!/^[^\\s@]+@[^\\s@]+\\.[^\\s@]+$/.test(formData.email)) {\n",
     "      newErrors.email = 'Invalid email address';\n", "    }\n", "\n",
     "    if (!formData.password) {\n", "      newErrors.password = 'Password is required';\n",
     "    } else if (formData.password.length < 8) {\n",
     "      newErrors.password = 'Password must be at least 8 characters';\n", "    }\n", "\n",
     "    setErrors(newErrors);\n", "    return Object.keys(newErrors).length === 0;\n",
     "  }, [formData]);\n", "\n", "  const handleSubmit = useCallback(async (e: FormEvent) => {\n",
     "    e.preventDefault();\n", "\n", "    if (!validateForm()) return;\n", "\n",
     "    setIsSubmitting(true);\n", "    try {\n", "      await onSubmit(formData);\n",
     "    } catch (error) {\n", "      console.error('Form submission error:', error);\n",
     "    } finally {\n", "      setIsSubmitting(false);\n", "    }\n",
     "  }, [formData, validateForm, onSubmit]);\n", "\n",
     "  const handleInputChange = useCallback((field: keyof FormData) => {\n",
     "    return (e: React.ChangeEvent<HTMLInputElement>) => {\n",
     "      setFormData(prev => ({ ...prev, [field]: e.target.value }));\n",
     "      // Clear error when user starts typing\n", "      if (errors[field]) {\n",
     "        setErrors(prev => ({ ...prev, [field]: undefined }));\n", "      }\n", "    };\n",
     "  }, [errors]);\n", "\n", "  return (\n", "    <form onSubmit={handleSubmit} className={", "U+0060",
     "${styles.", "{{componentName}}", "} ${className || ''}", "U+0060", "}>\n",
     "      <div className={styles.field}>\n",
     "        <label htmlFor=\"email\" className={styles.label}>\n", "          Email\n",
     "        </label>\n", "        <input\n", "          id=\"email\"\n", "          type=\"email\"\n",
     "          value={formData.email}\n", "          onChange={handleInputChange('email')}\n",
     "          className={", "U+0060", "${styles.input} ${errors.email ? styles.error : ''}", "U+0060",
     "}\n", "          disabled={isSubmitting}\n", "        />\n",
     "        {errors.email && <span className={styles.errorMessage}>{errors.email}</span>}\n",
     "      </div>\n", "\n", "      <div className={styles.field}>\n",
     "        <label htmlFor=\"password\" className={styles.label}>\n", "          Password\n",
     "        </label>\n", "        <input\n", "          id=\"password\"\n",
     "          type=\"password\"\n", "          value={formData.password}\n",
     "          onChange={handleInputChange('password')}\n", "          className={", "U+0060",
     "${styles.input} ${errors.password ? styles.error : ''}", "U+0060", "}\n",
     "          disabled={isSubmitting}\n", "        />\n",
     "        {errors.password && <span className={styles.errorMessage}>{errors.password}</span>}\n",
     "      </div>\n", "\n", "      <button\n", "        type=\"submit\"\n",
     "        disabled={isSubmitting}\n", "        className={styles.submitButton}\n", "      >\n",
     "        {isSubmitting ? 'Submitting...' : submitButtonText}\n", "      </button>\n", "    </form>\n",
     "  );\n", "};\n", "\n", "export default ", "{{ComponentName}}", ";"
  >>

(* cssTemplates.simple, generate-component.js lines 264-296, one element per character. *)
cssTemplate_simple ==
  <<
     ".", "{", "{", "c", "o", "m", "p", "o", "n", "e", "n", "t", "N", "a", "m", "e", "}", "}", " ", "{",
     "\n", " ", " ", "d", "i", "s", "p", "l", "a", "y", ":", " ", "i", "n", "l", "i", "n", "e", "-", "b",
     "l", "o", "c", "k", ";", "\n", " ", " ", "p", "a", "d", "d", "i", "n", "g", ":", " ", "8", "p", "x",
     " ", "1", "6", "p", "x", ";", "\n", " ", " ", "b", "o", "r", "d", "e", "r", ":", " ", "1", "p", "x",
     " ", "s", "o", "l", "i", "d", " ", "#", "c", "c", "c", ";", "\n", " ", " ", "b", "o", "r", "d", "e",
     "r", "-", "r", "a", "d", "i", "u", "s", ":", " ", "4", "p", "x", ";", "\n", " ", " ", "f", "o", "n",
     "t", "-", "s", "i", "z", "e", ":", " ", "1", "4", "p", "x", ";", "\n", " ", " ", "c", "u", "r", "s",
     "o", "r", ":", " ", "p", "o", "i", "n", "t", "e", "r", ";", "\n", " ", " ", "t", "r", "a", "n", "s",
     "i", "t", "i", "o", "n", ":", " ", "a", "l", "l", " ", "0", ".", "2", "s", ";", "\n", "}", "\n", "\n",
     ".", "{", "{", "c", "o", "m", "p", "o", "n", "e", "n", "t", "N", "a", "m", "e", "}", "}", ":", "h", "o",
     "v", "e", "r", " ", "{", "\n", " ", " ", "b", "a", "c", "k", "g", "r", "o", "u", "n", "d", "-", "c",
     "o", "l", "o", "r", ":", " ", "#", "f", "5", "f", "5", "f", "5", ";", "\n", "}", "\n", "\n", ".", "p",
     "r", "i", "m", "a", "r", "y", " ", "{", "\n", " ", " ", "b", "a", "c", "k", "g", "r", "o", "u", "n",
     "d", "-", "c", "o", "l", "o", "r", ":", " ", "#", "0", "0", "7", "b", "f", "f", ";", "\n", " ", " ",
     "c", "o", "l", "o", "r", ":", " ", "w", "h", "i", "t", "e", ";", "\n", " ", " ", "b", "o", "r", "d",
     "e", "r", "-", "c", "o", "l", "o", "r", ":", " ", "#", "0", "0", "7", "b", "f", "f", ";", "\n", "}",
     "\n", "\n", ".", "p", "r", "i", "m", "a", "r", "y", ":", "h", "o", "v", "e", "r", " ", "{", "\n", " ",
     " ", "b", "a", "c", "k", "g", "r", "o", "u", "n", "d", "-", "c", "o", "l", "o", "r", ":", " ", "#", "0",
     "0", "5", "6", "b", "3", ";", "\n", "}", "\n", "\n", ".", "s", "e", "c", "o", "n", "d", "a", "r", "y",
     " ", "{", "\n", " ", " ", "b", "a", "c", "k", "g", "r", "o", "u", "n", "d", "-", "c", "o", "l", "o",
     "r", ":", " ", "#", "6", "c", "7", "5", "7", "d", ";", "\n", " ", " ", "c", "o", "l", "o", "r", ":",
     " ", "w", "h", "i", "t", "e", ";", "\n", " ", " ", "b", "o", "r", "d", "e", "r", "-", "c", "o", "l",
     "o", "r", ":", " ", "#", "6", "c", "7", "5", "7", "d", ";", "\n", "}", "\n", "\n", ".", "s", "e", "c",
     "o", "n", "d", "a", "r", "y", ":", "h", "o", "v", "e", "r", " ", "{", "\n", " ", " ", "b", "a", "c",
     "k", "g", "r", "o", "u", "n", "d", "-", "c", "o", "l", "o", "r", ":", " ", "#", "5", "4", "5", "b", "6",
     "2", ";", "\n", "}"
  >>

(* cssTemplates.interactive, generate-component.js lines 298-325, one element per character. *)
cssTemplate_interactive ==
  <<
     ".", "{", "{", "c", "o", "m", "p", "o", "n", "e", "n", "t", "N", "a", "m", "e", "}", "}", " ", "{",
     "\n", " ", " ", "p", "a", "d", "d", "i", "n", "g", ":", " ", "8", "p", "x", " ", "1", "6", "p", "x",
     ";", "\n", " ", " ", "b", "o", "r", "d", "e", "r", ":", " ", "1", "p", "x", " ", "s", "o", "l", "i",
     "d", " ", "#", "c", "c", "c", ";", "\n", " ", " ", "b", "o", "r", "d", "e", "r", "-", "r", "a", "d",
     "i", "u", "s", ":", " ", "4", "p", "x", ";", "\n", " ", " ", "b", "a", "c", "k", "g", "r", "o", "u",
     "n", "d", "-", "c", "o", "l", "o", "r", ":", " ", "w", "h", "i", "t", "e", ";", "\n", " ", " ", "c",
     "u", "r", "s", "o", "r", ":", " ", "p", "o", "i", "n", "t", "e", "r", ";", "\n", " ", " ", "t", "r",
     "a", "n", "s", "i", "t", "i", "o", "n", ":", " ", "a", "l", "l", " ", "0", ".", "2", "s", ";", "\n",
     " ", " ", "f", "o", "n", "t", "-", "s", "i", "z", "e", ":", " ", "1", "4", "p", "x", ";", "\n", "}",
     "\n", "\n", ".", "{", "{", "c", "o", "m", "p", "o", "n", "e", "n", "t", "N", "a", "m", "e", "}", "}",
     ".", "a", "c", "t", "i", "v", "e", " ", "{", "\n", " ", " ", "b", "a", "c", "k", "g", "r", "o", "u",
     "n", "d", "-", "c", "o", "l", "o", "r", ":", " ", "#", "0", "0", "7", "b", "f", "f", ";", "\n", " ",
     " ", "c", "o", "l", "o", "r", ":", " ", "w", "h", "i", "t", "e", ";", "\n", " ", " ", "b", "o", "r",
     "d", "e", "r", "-", "c", "o", "l", "o", "r", ":", " ", "#", "0", "0", "7", "b", "f", "f", ";", "\n",
     "}", "\n", "\n", ".", "{", "{", "c", "o", "m", "p", "o", "n", "e", "n", "t", "N", "a", "m", "e", "}",
     "}", ".", "d", "i", "s", "a", "b", "l", "e", "d", " ", "{", "\n", " ", " ", "o", "p", "a", "c", "i",
     "t", "y", ":", " ", "0", ".", "6", ";", "\n", " ", " ", "c", "u", "r", "s", "o", "r", ":", " ", "n",
     "o", "t", "-", "a", "l", "l", "o", "w", "e", "d", ";", "\n", "}", "\n", "\n", ".", "{", "{", "c", "o",
     "m", "p", "o", "n", "e", "n", "t", "N", "a", "m", "e", "}", "}", ":", "n", "o", "t", "(", ".", "d", "i",
     "s", "a", "b", "l", "e", "d", ")", ":", "h", "o", "v", "e", "r", " ", "{", "\n", " ", " ", "b", "a",
     "c", "k", "g", "r", "o", "u", "n", "d", "-", "c", "o", "l", "o", "r", ":", " ", "#", "f", "5", "f", "5",
     "f", "5", ";", "\n", "}", "\n", "\n", ".", "{", "{", "c", "o", "m", "p", "o", "n", "e", "n", "t", "N",
     "a", "m", "e", "}", "}", ".", "a", "c", "t", "i", "v", "e", ":", "h", "o", "v", "e", "r", " ", "{",
     "\n", " ", " ", "b", "a", "c", "k", "g", "r", "o", "u", "n", "d", "-", "c", "o", "l", "o", "r", ":",
     " ", "#", "0", "0", "5", "6", "b", "3", ";", "\n", "}"
  >>

(* cssTemplates.data, generate-component.js lines 327-353, one element per character. *)
cssTemplate_data ==
  <<
     ".", "{", "{", "c", "o", "m", "p", "o", "n", "e", "n", "t", "N", "a", "m", "e", "}", "}", " ", "{",
     "\n", " ", " ", "p", "a", "d", "d", "i", "n", "g", ":", " ", "1", "6", "p", "x", ";", "\n", "}", "\n",
     "\n", ".", "{", "{", "c", "o", "m", "p", "o", "n", "e", "n", "t", "N", "a", "m", "e", "}", "}", ".",
     "l", "o", "a", "d", "i", "n", "g", " ", "{", "\n", " ", " ", "d", "i", "s", "p", "l", "a", "y", ":",
     " ", "f", "l", "e", "x", ";", "\n", " ", " ", "j", "u", "s", "t", "i", "f", "y", "-", "c", "o", "n",
     "t", "e", "n", "t", ":", " ", "c", "e", "n", "t", "e", "r", ";", "\n", " ", " ", "a", "l", "i", "g",
     "n", "-", "i", "t", "e", "m", "s", ":", " ", "c", "e", "n", "t", "e", "r", ";", "\n", " ", " ", "h",
     "e", "i", "g", "h", "t", ":", " ", "2", "0", "0", "p", "x", ";", "\n", " ", " ", "f", "o", "n", "t",
     "-", "s", "i", "z", "e", ":", " ", "1", "6", "p", "x", ";", "\n", " ", " ", "c", "o", "l", "o", "r",
     ":", " ", "#", "6", "6", "6", ";", "\n", "}", "\n", "\n", ".", "{", "{", "c", "o", "m", "p", "o", "n",
     "e", "n", "t", "N", "a", "m", "e", "}", "}", ".", "e", "r", "r", "o", "r", " ", "{", "\n", " ", " ",
     "c", "o", "l", "o", "r", ":", " ", "#", "d", "c", "3", "5", "4", "5", ";", "\n", " ", " ", "t", "e",
     "x", "t", "-", "a", "l", "i", "g", "n", ":", " ", "c", "e", "n", "t", "e", "r", ";", "\n", " ", " ",
     "p", "a", "d", "d", "i", "n", "g", ":", " ", "1", "6", "p", "x", ";", "\n", "}", "\n", "\n", ".", "i",
     "t", "e", "m", " ", "{", "\n", " ", " ", "p", "a", "d", "d", "i", "n", "g", ":", " ", "8", "p", "x",
     " ", "0", ";", "\n", " ", " ", "b", "o", "r", "d", "e", "r", "-", "b", "o", "t", "t", "o", "m", ":",
     " ", "1", "p", "x", " ", "s", "o", "l", "i", "d", " ", "#", "e", "e", "e", ";", "\n", "}", "\n", "\n",
     ".", "i", "t", "e", "m", ":", "l", "a", "s", "t", "-", "c", "h", "i", "l", "d", " ", "{", "\n", " ",
     " ", "b", "o", "r", "d", "e", "r", "-", "b", "o", "t", "t", "o", "m", ":", " ", "n", "o", "n", "e", ";",
     "\n", "}"
  >>

(* cssTemplates.form, generate-component.js lines 355-419, one element per character. *)
cssTemplate_form ==
  <<
     ".", "{", "{", "c", "o", "m", "p", "o", "n", "e", "n", "t", "N", "a", "m", "e", "}", "}", " ", "{",
     "\n", " ", " ", "m", "a", "x", "-", "w", "i", "d", "t", "h", ":", " ", "4", "0", "0", "p", "x", ";",
     "\n", " ", " ", "p", "a", "d", "d", "i", "n", "g", ":", " ", "2", "4", "p", "x", ";", "\n", " ", " ",
     "b", "o", "r", "d", "e", "r", ":", " ", "1", "p", "x", " ", "s", "o", "l", "i", "d", " ", "#", "d", "d",
     "d", ";", "\n", " ", " ", "b", "o", "r", "d", "e", "r", "-", "r", "a", "d", "i", "u", "s", ":", " ",
     "8", "p", "x", ";", "\n", " ", " ", "b", "a", "c", "k", "g", "r", "o", "u", "n", "d", "-", "c", "o",
     "l", "o", "r", ":", " ", "w", "h", "i", "t", "e", ";", "\n", "}", "\n", "\n", ".", "f", "i", "e", "l",
     "d", " ", "{", "\n", " ", " ", "m", "a", "r", "g", "i", "n", "-", "b", "o", "t", "t", "o", "m", ":",
     " ", "1", "6", "p", "x", ";", "\n", "}", "\n", "\n", ".", "l", "a", "b", "e", "l", " ", "{", "\n", " ",
     " ", "d", "i", "s", "p", "l", "a", "y", ":", " ", "b", "l", "o", "c", "k", ";", "\n", " ", " ", "m",
     "a", "r", "g", "i", "n", "-", "b", "o", "t", "t", "o", "m", ":", " ", "4", "p", "x", ";", "\n", " ",
     " ", "f", "o", "n", "t", "-", "w", "e", "i", "g", "h", "t", ":", " ", "5", "0", "0", ";", "\n", " ",
     " ", "c", "o", "l", "o", "r", ":", " ", "#", "3", "3", "3", ";", "\n", "}", "\n", "\n", ".", "i", "n",
     "p", "u", "t", " ", "{", "\n", " ", " ", "w", "i", "d", "t", "h", ":", " ", "1", "0", "0", "%", ";",
     "\n", " ", " ", "p", "a", "d", "d", "i", "n", "g", ":", " ", "8", "p", "x", " ", "1", "2", "p", "x",
     ";", "\n", " ", " ", "b", "o", "r", "d", "e", "r", ":", " ", "1", "p", "x", " ", "s", "o", "l", "i",
     "d", " ", "#", "c", "c", "c", ";", "\n", " ", " ", "b", "o", "r", "d", "e", "r", "-", "r", "a", "d",
     "i", "u", "s", ":", " ", "4", "p", "x", ";", "\n", " ", " ", "f", "o", "n", "t", "-", "s", "i", "z",
     "e", ":", " ", "1", "4", "p", "x", ";", "\n", " ", " ", "t", "r", "a", "n", "s", "i", "t", "i", "o",
     "n", ":", " ", "b", "o", "r", "d", "e", "r", "-", "c", "o", "l", "o", "r", " ", "0", ".", "2", "s", ";",
     "\n", "}", "\n", "\n", ".", "i", "n", "p", "u", "t", ":", "f", "o", "c", "u", "s", " ", "{", "\n", " ",
     " ", "o", "u", "t", "l", "i", "n", "e", ":", " ", "n", "o", "n", "e", ";", "\n", " ", " ", "b", "o",
     "r", "d", "e", "r", "-", "c", "o", "l", "o", "r", ":", " ", "#", "0", "0", "7", "b", "f", "f", ";",
     "\n", " ", " ", "b", "o", "x", "-", "s", "h", "a", "d", "o", "w", ":", " ", "0", " ", "0", " ", "0",
     " ", "2", "p", "x", " ", "r", "g", "b", "a", "(", "0", ",", " ", "1", "2", "3", ",", " ", "2", "5", "5",
     ",", " ", "0", ".", "2", "5", ")", ";", "\n", "}", "\n", "\n", ".", "i", "n", "p", "u", "t", ".", "e",
     "r", "r", "o", "r", " ", "{", "\n", " ", " ", "b", "o", "r", "d", "e", "r", "-", "c", "o", "l", "o",
     "r", ":", " ", "#", "d", "c", "3", "5", "4", "5", ";", "\n", "}", "\n", "\n", ".", "e", "r", "r", "o",
     "r", "M", "e", "s", "s", "a", "g", "e", " ", "{", "\n", " ", " ", "d", "i", "s", "p", "l", "a", "y",
     ":", " ", "b", "l", "o", "c", "k", ";", "\n", " ", " ", "m", "a", "r", "g", "i", "n", "-", "t", "o",
     "p", ":", " ", "4", "p", "x", ";", "\n", " ", " ", "c", "o", "l", "o", "r", ":", " ", "#", "d", "c",
     "3", "5", "4", "5", ";", "\n", " ", " ", "f", "o", "n", "t", "-", "s", "i", "z", "e", ":", " ", "1",
     "2", "p", "x", ";", "\n", "}", "\n", "\n", ".", "s", "u", "b", "m", "i", "t", "B", "u", "t", "t", "o",
     "n", " ", "{", "\n", " ", " ", "w", "i", "d", "t", "h", ":", " ", "1", "0", "0", "%", ";", "\n", " ",
     " ", "p", "a", "d", "d", "i", "n", "g", ":", " ", "1", "0", "p", "x", ";", "\n", " ", " ", "b", "a",
     "c", "k", "g", "r", "o", "u", "n", "d", "-", "c", "o", "l", "o", "r", ":", " ", "#", "0", "0", "7", "b",
     "f", "f", ";", "\n", " ", " ", "c", "o", "l", "o", "r", ":", " ", "w", "h", "i", "t", "e", ";", "\n",
     " ", " ", "b", "o", "r", "d", "e", "r", ":", " ", "n", "o", "n", "e", ";", "\n", " ", " ", "b", "o",
     "r", "d", "e", "r", "-", "r", "a", "d", "i", "u", "s", ":", " ", "4", "p", "x", ";", "\n", " ", " ",
     "f", "o", "n", "t", "-", "s", "i", "z", "e", ":", " ", "1", "6", "p", "x", ";", "\n", " ", " ", "c",
     "u", "r", "s", "o", "r", ":", " ", "p", "o", "i", "n", "t", "e", "r", ";", "\n", " ", " ", "t", "r",
     "a", "n", "s", "i", "t", "i", "o", "n", ":", " ", "b", "a", "c", "k", "g", "r", "o", "u", "n", "d", "-",
     "c", "o", "l", "o", "r", " ", "0", ".", "2", "s", ";", "\n", "}", "\n", "\n", ".", "s", "u", "b", "m",
     "i", "t", "B", "u", "t", "t", "o", "n", ":", "h", "o", "v", "e", "r", ":", "n", "o", "t", "(", ":", "d",
     "i", "s", "a", "b", "l", "e", "d", ")", " ", "{", "\n", " ", " ", "b", "a", "c", "k", "g", "r", "o",
     "u", "n", "d", "-", "c", "o", "l", "o", "r", ":", " ", "#", "0", "0", "5", "6", "b", "3", ";", "\n",
     "}", "\n", "\n", ".", "s", "u", "b", "m", "i", "t", "B", "u", "t", "t", "o", "n", ":", "d", "i", "s",
     "a", "b", "l", "e", "d", " ", "{", "\n", " ", " ", "b", "a", "c", "k", "g", "r", "o", "u", "n", "d",
     "-", "c", "o", "l", "o", "r", ":", " ", "#", "c", "c", "c", ";", "\n", " ", " ", "c", "u", "r", "s",
     "o", "r", ":", " ", "n", "o", "t", "-", "a", "l", "l", "o", "w", "e", "d", ";", "\n", "}"
  >>
\* the placeholder /{{ComponentName}}/ in a component template (one piece)
PhComponentName == <<"{{ComponentName}}">>
\* the placeholder /{{componentName}}/ in a component template (one piece)
PhcomponentName == <<"{{componentName}}">>
\* the placeholder /{{componentName}}/ in a CSS template (characters)
PhcomponentNameChars ==
  <<"{","{","c","o","m","p","o","n","e","n","t","N","a","m","e","}","}">>

templates ==
  [simple |-> template_simple, interactive |-> template_interactive,
   data |-> template_data, form |-> template_form]

cssTemplates ==
  [simple |-> cssTemplate_simple, interactive |-> cssTemplate_interactive,
   data |-> cssTemplate_data, form |-> cssTemplate_form]

\* templates and cssTemplates are object literals: a key they do not define
\* themselves is looked up on Object.prototype, whose members are not strings.
ObjectPrototypeKeys ==
  {"constructor", "toString", "toLocaleString", "valueOf", "hasOwnProperty",
   "isPrototypeOf", "propertyIsEnumerable", "__proto__"}

\* obj[key] || obj.simple  (no template is the empty string)
lookupTemplate(obj, key) ==
  IF key \in DOMAIN obj THEN [kind |-> "string", text |-> obj[key]]
  ELSE IF key \in ObjectPrototypeKeys THEN [kind |-> "object"]
  ELSE [kind |-> "string", text |-> obj.simple]

(***************************************************************************)
(* The component generator                                                 *)
(***************************************************************************)
\* the component names given on the command line; the empty one stands for a
\* command line without a name (args[0] is undefined)
ComponentNames ==
  { <<"B","o","x">>, <<"n","a","v">>, <<"A","$","$">>, <<>> }

\* the values given after --type=
TypeValues ==
  {"simple", "interactive", "data", "form", "dataFetching", "constructor", ""}

\* the arguments after the component name that main may be given
Args ==
  {<<"--type=", t>> : t \in TypeValues}
    \cup {<<"--styled">>, <<"--no-styled">>, <<"--typed">>, <<"--no-typed">>,
          <<"--verbose">>}

NoRun == [type |-> "none", styled |-> FALSE, typed |-> FALSE]

\* one turn of main's loop over args.slice(1)
parseArg(opts, arg) ==
  LET set(k, v) == [x \in DOMAIN opts \cup {k} |-> IF x = k THEN v ELSE opts[x]]
  IN  IF arg[1] = "--type=" THEN set("type", arg[2])
      ELSE IF arg[1] = "--styled" THEN set("styled", TRUE)
      ELSE IF arg[1] = "--no-styled" THEN set("styled", FALSE)
      ELSE IF arg[1] = "--typed" THEN set("typed", TRUE)
      ELSE IF arg[1] = "--no-typed" THEN set("typed", FALSE)
      ELSE opts

\* mutant: the default of styled is false
destructure_styledOff(opts) ==
  [type   |-> IF "type" \in DOMAIN opts THEN opts.type ELSE "simple",
   styled |-> IF "styled" \in DOMAIN opts THEN opts.styled ELSE FALSE,
   typed  |-> IF "typed" \in DOMAIN opts THEN opts.typed ELSE TRUE]

\* const { type = 'simple', styled = true, typed = true } = options
destructure(opts) ==
  [type   |-> IF "type" \in DOMAIN opts THEN opts.type ELSE "simple",
   styled |-> IF "styled" \in DOMAIN opts THEN opts.styled ELSE TRUE,
   typed  |-> IF "typed" \in DOMAIN opts THEN opts.typed ELSE TRUE]

\* file names inside components/<name>/
componentFile(name) == name \o <<".tsx">>
cssFile(name)       == name \o <<".module.css">>
indexFile           == <<"index.ts">>
testFile(name)      == name \o <<".test.tsx">>

\* template.replace(/{{ComponentName}}/g, name).replace(/{{componentName}}/g, lower)
componentContent(template, name) ==
  replaceAll(replaceAll(template, PhComponentName, name),
             PhcomponentName, toLowerCase(name))

\* cssTemplate.replace(/{{componentName}}/g, componentName.toLowerCase())
cssContent(cssTemplate, name) ==
  replaceAll(cssTemplate, PhcomponentNameChars, toLowerCase(name))

\* mutant: the two branches of the conditional are exchanged
indexContent_swapped(name, typed) ==
  IF ~typed
  THEN <<"export { ">> \o name \o <<", type ">> \o name \o <<"Props } from './">>
         \o name \o <<"';\n", "export { default } from './">> \o name \o <<"';">>
  ELSE <<"export { ">> \o name \o <<" } from './">>
         \o name \o <<"';\n", "export { default } from './">> \o name \o <<"';">>

\* the barrel file: template literals, the name interpolated as it is
indexContent(name, typed) ==
  IF typed
  THEN <<"export { ">> \o name \o <<", type ">> \o name \o <<"Props } from './">>
         \o name \o <<"';\n", "export { default } from './">> \o name \o <<"';">>
  ELSE <<"export { ">> \o name \o <<" } from './">>
         \o name \o <<"';\n", "export { default } from './">> \o name \o <<"';">>

\* the test stub
testContent(name) ==
  <<"import React from 'react';\n",
    "import { render, screen } from '@testing-library/react';\n",
    "import { ">> \o name \o <<" } from './">> \o name \o <<"';\n", "\n",
    "describe('">> \o name \o <<"', () => {\n",
    "  it('renders without crashing', () => {\n",
    "    render(<">> \o name \o <<" />);\n", "  });\n", "\n",
    "  it('applies custom className', () => {\n",
    "    const { container } = render(<">> \o name
      \o <<" className=\"custom-class\" />);\n",
    "    expect(container.firstChild).toHaveClass('custom-class');\n",
    "  });\n", "});">>

\* mutant: the file is opened for appending (flag 'a')
writeFileSync_append(fs, file, content) ==
  [f \in DOMAIN fs \cup {file} |->
     IF f = file THEN (IF file \in DOMAIN fs THEN fs[file] \o content ELSE content)
     ELSE fs[f]]

\* mutant: the file is opened without creating it (flag 'r+')
writeFileSync_noCreate(fs, file, content) ==
  [f \in DOMAIN fs |-> IF f = file THEN content ELSE fs[f]]

\* a write that empties the directory first
writeFileSync_alone(fs, file, content) == file :> content

\* fs.writeFileSync(file, content): create or replace
writeFileSync(fs, file, content) ==
  [f \in DOMAIN fs \cup {file} |-> IF f = file THEN content ELSE fs[f]]

GenOff ==
  /\ pc = "off"
  /\ componentName = <<>>
  /\ options = <<>>
  /\ dirExists = FALSE
  /\ files = <<>>
  /\ written = {}
  /\ exitCode = "none"
  /\ thrown = "none"
  /\ lastRun = NoRun

\* what a directory components/<name>/ made by hand holds before the first run
ForeignFiles == <<"README.md">> :> <<"# Box\n">>

\* the first invocation finds no directory, or (sampled for Box) a directory
\* that holds a file of the user's
GenInit ==
  /\ pc = "idle"
  /\ componentName \in ComponentNames
  /\ options = <<>>
  /\ \/ dirExists = FALSE /\ files = <<>>
     \/ componentName = <<"B","o","x">> /\ dirExists = TRUE /\ files = ForeignFiles
  /\ written = {}
  /\ exitCode = "none"
  /\ thrown = "none"
  /\ lastRun = NoRun

\* main, lines 485-499: a new process; the component name is present
Main ==
  /\ pc \in {"idle", "done", "failed"}
  /\ componentName # <<>>
  /\ pc' = "args"
  /\ options' = <<>>
  /\ written' = {}
  /\ exitCode' = "none"
  /\ thrown' = "none"
  /\ UNCHANGED <<componentName, dirExists, files, lastRun>>
  /\ UNCHANGED <<cssVars, gqlVars, valVars, tgVars, jsonVars, hookVars>>

\* main, lines 489-497: a new process; no component name, process.exit(1)
Usage ==
  /\ pc \in {"idle", "usage"}
  /\ componentName = <<>>
  /\ pc' = "usage"
  /\ exitCode' = 1
  /\ UNCHANGED <<componentName, options, dirExists, files, written, thrown, lastRun>>
  /\ UNCHANGED <<cssVars, gqlVars, valVars, tgVars, jsonVars, hookVars>>

\* main, lines 500-512: one argument of the loop
ParseArg(arg) ==
  /\ pc = "args"
  /\ options' = parseArg(options, arg)
  /\ UNCHANGED <<pc, componentName, dirExists, files, written, exitCode, thrown, lastRun>>
  /\ UNCHANGED <<cssVars, gqlVars, valVars, tgVars, jsonVars, hookVars>>

\* createComponent, lines 423-429: the call, the defaults, the directory
CreateDir ==
  /\ pc = "args"
  /\ pc' = "component"
  /\ dirExists' = TRUE
  /\ UNCHANGED <<componentName, options, files, written, exitCode, thrown, lastRun>>
  /\ UNCHANGED <<cssVars, gqlVars, valVars, tgVars, jsonVars, hookVars>>

\* what a throw inside createComponent leads to: main's catch, lines 516-519
Throw(error) ==
  /\ pc' = "failed"
  /\ exitCode' = 1
  /\ thrown' = error
  /\ lastRun' = NoRun
  /\ UNCHANGED <<componentName, options, dirExists, files, written>>

\* createComponent, lines 431-441: render the template, write <Name>.tsx
WriteComponent ==
  /\ pc = "component"
  /\ LET o == destructure(options)
         template == lookupTemplate(templates, o.type)
     IN  /\ template.kind = "string"
         /\ files' = writeFileSync(files, componentFile(componentName),
                                   componentContent(template.text, componentName))
         /\ pc' = IF o.styled THEN "css" ELSE "index"
  /\ written' = written \cup {componentFile(componentName)}
  /\ UNCHANGED <<componentName, options, dirExists, exitCode, thrown, lastRun>>
  /\ UNCHANGED <<cssVars, gqlVars, valVars, tgVars, jsonVars, hookVars>>

\* createComponent, lines 432-437: templates[type] is not a string, and calling
\* replace on it throws a TypeError before anything is written
RenderThrows ==
  /\ pc = "component"
  /\ lookupTemplate(templates, destructure(options).type).kind # "string"
  /\ Throw("TypeError")
  /\ UNCHANGED <<cssVars, gqlVars, valVars, tgVars, jsonVars, hookVars>>

\* createComponent, lines 443-448: write <Name>.module.css when styled
WriteCss ==
  /\ pc = "css"
  /\ LET o == destructure(options)
         cssTemplate == lookupTemplate(cssTemplates, o.type)
     IN  IF cssTemplate.kind # "string" THEN Throw("TypeError")
         ELSE /\ files' = writeFileSync(files, cssFile(componentName),
                                        cssContent(cssTemplate.text, componentName))
              /\ written' = written \cup {cssFile(componentName)}
              /\ pc' = "index"
              /\ UNCHANGED <<componentName, options, dirExists, exitCode, thrown, lastRun>>
  /\ UNCHANGED <<cssVars, gqlVars, valVars, tgVars, jsonVars, hookVars>>

\* createComponent, lines 450-456: write index.ts
WriteIndex ==
  /\ pc = "index"
  /\ files' = writeFileSync(files, indexFile,
                            indexContent(componentName, destructure(options).typed))
  /\ written' = written \cup {indexFile}
  /\ pc' = "test"
  /\ UNCHANGED <<componentName, options, dirExists, exitCode, thrown, lastRun>>
  /\ UNCHANGED <<cssVars, gqlVars, valVars, tgVars, jsonVars, hookVars>>

\* createComponent, lines 458-482: write <Name>.test.tsx, log, return; main ends
WriteTest ==
  /\ pc = "test"
  /\ files' = writeFileSync(files, testFile(componentName), testContent(componentName))
  /\ written' = written \cup {testFile(componentName)}
  /\ pc' = "done"
  /\ exitCode' = 0
  /\ lastRun' = destructure(options)
  /\ UNCHANGED <<componentName, options, dirExists, thrown>>
  /\ UNCHANGED <<cssVars, gqlVars, valVars, tgVars, jsonVars, hookVars>>

\* a failing write that removes what the invocation had written
WriteFails_rollback ==
  /\ pc \in {"component", "css", "index", "test"}
  /\ pc' = "failed"
  /\ exitCode' = 1
  /\ thrown' = "fs"
  /\ lastRun' = NoRun
  /\ files' = [f \in DOMAIN files \ written |-> files[f]]
  /\ UNCHANGED <<componentName, options, dirExists, written>>
  /\ UNCHANGED <<cssVars, gqlVars, valVars, tgVars, jsonVars, hookVars>>

\* fs.writeFileSync throws (disk full, no permission, ...): nothing is written
WriteFails ==
  /\ pc \in {"component", "css", "index", "test"}
  /\ Throw("fs")
  /\ UNCHANGED <<cssVars, gqlVars, valVars, tgVars, jsonVars, hookVars>>

\* fs.mkdirSync throws: the directory is not created
MkdirFails ==
  /\ pc = "args"
  /\ ~dirExists
  /\ Throw("fs")
  /\ UNCHANGED <<cssVars, gqlVars, valVars, tgVars, jsonVars, hookVars>>

GenNext ==
  \/ Main
  \/ Usage
  \/ \E arg \in Args : ParseArg(arg)
  \/ CreateDir
  \/ WriteComponent
  \/ RenderThrows
  \/ WriteCss
  \/ WriteIndex
  \/ WriteTest
  \/ WriteFails
  \/ MkdirFails

(***************************************************************************)
(* The style validator                                                     *)
(***************************************************************************)
WhiteSpace == {" ", "\t", "\r", "\n"}

\* [A-Za-z0-9_], the word characters of \w and \b
WordChars == Range(UpperChars) \cup Range(LowerChars) \cup DigitChars \cup {"_"}

\* String.prototype.trim
RECURSIVE trimStart(_)
trimStart(s) ==
  IF s # <<>> /\ s[1] \in WhiteSpace THEN trimStart(Tail(s)) ELSE s

RECURSIVE trimEnd(_)
trimEnd(s) ==
  IF s # <<>> /\ s[Len(s)] \in WhiteSpace THEN trimEnd(SubSeq(s, 1, Len(s) - 1)) ELSE s

trim(s) == trimEnd(trimStart(s))

\* String.prototype.startsWith
startsWith(s, prefix) == MatchesAt(s, prefix, 1)

\* s.split(sep) for a one-character separator
RECURSIVE split(_, _)
split(s, sep) ==
  LET j == NextMatch(s, <<sep>>, 1)
  IN  IF j = 0 THEN <<s>>
      ELSE <<SubSeq(s, 1, j - 1)>> \o split(SubSeq(s, j + 1, Len(s)), sep)

\* the end of the run of digits that starts at i
RECURSIVE digitsEnd(_, _)
digitsEnd(s, i) ==
  IF i + 1 <= Len(s) /\ s[i + 1] \in DigitChars THEN digitsEnd(s, i + 1) ELSE i

\* the number of matches of /\b\d+<unit>\b/g in s, for any of the units
countUnit(s, units) ==
  Cardinality(
    {i \in DOMAIN s :
       /\ s[i] \in DigitChars
       /\ (i = 1 \/ s[i - 1] \notin WordChars)
       /\ \E u \in units :
            LET e == digitsEnd(s, i) + Len(u)
            IN  /\ MatchesAt(s, u, digitsEnd(s, i) + 1)
                /\ (e = Len(s) \/ s[e + 1] \notin WordChars)})

\* validationRules.classNaming.pattern, /^[a-z][a-zA-Z0-9]*$/
classNamingTest(selector) ==
  /\ selector # <<>>
  /\ selector[1] \in Range(LowerChars)
  /\ \A i \in DOMAIN selector :
       selector[i] \in Range(LowerChars) \cup Range(UpperChars) \cup DigitChars

\* a validator that only rejects a selector whose first character is #
noIdsTest_firstOnly(selector) == selector = <<>> \/ selector[1] # "#"

\* validationRules.noIds.pattern, /^[^#]*$/
noIdsTest(selector) == "#" \notin Range(selector)

\* validationRules.noUniversal.pattern, /^[^*]*$/
noUniversalTest(selector) == "*" \notin Range(selector)

\* validationRules.noImportant.pattern, /^[^!]*$/
noImportantTest(selector) == "!" \notin Range(selector)

\* a validator that treats every px value as an issue, whatever else the line holds
preferRelativeUnits_pxOnly(css) ==
  LET pxMatches == countUnit(css, {<<"p","x">>})
  IN  [valid |-> pxMatches = 0,
       message |-> <<"Found ", ToString(pxMatches),
                     " px units. Consider using rem/em for better accessibility">>]

\* validationRules.preferRelativeUnits.validate
preferRelativeUnits(css) ==
  LET pxMatches == countUnit(css, {<<"p","x">>})
      remEmMatches == countUnit(css, {<<"r","e","m">>, <<"e","m">>})
  IN  [valid |-> remEmMatches > 0 \/ pxMatches = 0,
       message |-> <<"Found ", ToString(pxMatches),
                     " px units. Consider using rem/em for better accessibility">>]

\* Object.entries(validationRules) restricted to the rules that have a pattern,
\* in the order of the object literal (preferRelativeUnits has none)
patternRules ==
  << [rule |-> "classNaming",
      message |-> <<"Class names should use camelCase starting with a lowercase letter">>],
     [rule |-> "noIds",
      message |-> <<"Avoid using ID selectors (#) in CSS modules">>],
     [rule |-> "noUniversal",
      message |-> <<"Avoid using universal selector (*) in CSS modules">>],
     [rule |-> "noImportant",
      message |-> <<"Avoid using !important in CSS modules">>] >>

patternTest(rule, selector) ==
  IF rule = "classNaming" THEN classNamingTest(selector)
  ELSE IF rule = "noIds" THEN noIdsTest(selector)
  ELSE IF rule = "noUniversal" THEN noUniversalTest(selector)
  ELSE noImportantTest(selector)

\* the issues the selector of one line gets, in rule order
RECURSIVE selectorIssues(_, _, _)
selectorIssues(selector, lineNum, k) ==
  IF k > Len(patternRules) THEN <<>>
  ELSE (IF patternTest(patternRules[k].rule, selector) THEN <<>>
        ELSE << [line |-> lineNum, rule |-> patternRules[k].rule,
                 message |-> patternRules[k].message, content |-> selector] >>)
       \o selectorIssues(selector, lineNum, k + 1)

\* the body of the forEach with the check for px units moved before the
\* selector rules
lineIssues_unitsFirst(line, lineNum) ==
  LET trimmed == trim(line)
  IN  IF trimmed = <<>> \/ startsWith(trimmed, <<"/","*">>) \/ startsWith(trimmed, <<"/","/">>)
      THEN <<>>
      ELSE (IF preferRelativeUnits(trimmed).valid THEN <<>>
            ELSE << [line |-> lineNum, rule |-> "preferRelativeUnits",
                     message |-> preferRelativeUnits(trimmed).message,
                     content |-> trimmed] >>)
           \o (IF includes(trimmed, <<"{">>)
               THEN selectorIssues(trim(split(trimmed, "{")[1]), lineNum, 1)
               ELSE <<>>)

\* the body of the forEach of validateCSS for one line; noImportant has no
\* validate function, so the block that would call it adds nothing
lineIssues(line, lineNum) ==
  LET trimmed == trim(line)
  IN  IF trimmed = <<>> \/ startsWith(trimmed, <<"/","*">>) \/ startsWith(trimmed, <<"/","/">>)
      THEN <<>>
      ELSE (IF includes(trimmed, <<"{">>)
            THEN selectorIssues(trim(split(trimmed, "{")[1]), lineNum, 1)
            ELSE <<>>)
           \o (IF preferRelativeUnits(trimmed).valid THEN <<>>
               ELSE << [line |-> lineNum, rule |-> "preferRelativeUnits",
                        message |-> preferRelativeUnits(trimmed).message,
                        content |-> trimmed] >>)

RECURSIVE issuesFrom(_, _)
issuesFrom(lines, k) ==
  IF k > Len(lines) THEN <<>>
  ELSE lineIssues(lines[k], k) \o issuesFrom(lines, k + 1)

\* a validator that reports the index of the line instead of index + 1
validateCSS_zeroBased(content) ==
  LET issues == issuesFrom(split(content, "\n"), 1)
  IN  [i \in DOMAIN issues |-> [issues[i] EXCEPT !.line = @ - 1]]

validateCSS(content) == issuesFrom(split(content, "\n"), 1)

\* the lines the CSS modules given to the validator are made of
MaxCssLines == 2

CssSelectors ==
  { <<".","m","y","C","l","a","s","s">>, <<".","a">>, <<".","n","a","v","I","t","e","m","2">>, <<"#","i","d">>, <<"d","i","v","#","m","a","i","n">>, <<"*">>, <<".","m","y","-","c","l","a","s","s">>, <<"d","i","v">> }

CssBlocks ==
  { <<" ","{"," ","c","o","l","o","r",":"," ","r","e","d",";"," ","}">>, <<" ","{">>, <<" ","{"," ","w","i","d","t","h",":"," ","1","0","p","x",";"," ","}">> }

CssOtherLines ==
  { <<>>, <<" "," ","c","o","l","o","r",":"," ","r","e","d",";">>, <<" "," ","p","a","d","d","i","n","g",":"," ","8","p","x"," ","1","6","p","x",";">>, <<"}">>,
    <<" "," ","w","i","d","t","h",":"," ","1","0","p","x",";"," ","/","*"," ","a","l","s","o"," ","*","/"," ","m","a","r","g","i","n",":"," ","1","r","e","m",";">>, <<"/","*"," ","#","i","d"," ","{"," ","w","i","d","t","h",":"," ","1","p","x"," ","}"," ","*","/">>,
    <<" "," ","c","o","l","o","r",":"," ","r","e","d"," ","!","i","m","p","o","r","t","a","n","t",";">>,
    <<"a"," ","{"," ","c","o","l","o","r",":"," ","#","f","f","f",";"," ","}">>,
    <<"#","m","a","i","n"," ","*"," ","!","i","m","p","o","r","t","a","n","t"," ","{"," ","w","i","d","t","h",":"," ","1","0","p","x",";"," ","}">> }

CssLines ==
  {s \o b : s \in CssSelectors, b \in CssBlocks} \cup CssOtherLines

RECURSIVE joinLines(_)
joinLines(lines) ==
  IF Len(lines) = 1 THEN lines[1]
  ELSE lines[1] \o <<"\n">> \o joinLines(Tail(lines))

CssContents ==
  UNION {{joinLines(ls) : ls \in [1..n -> CssLines]} : n \in 1..MaxCssLines}

CssInit ==
  /\ cssPc = "start"
  /\ cssSource \in CssContents
  /\ cssIssues = <<>>

CssOff ==
  /\ cssPc = "off"
  /\ cssSource = <<>>
  /\ cssIssues = <<>>

\* validateCSS(content, filePath)
ValidateCSS ==
  /\ cssPc = "start"
  /\ cssIssues' = validateCSS(cssSource)
  /\ cssPc' = "validated"
  /\ UNCHANGED cssSource
  /\ UNCHANGED <<genVars, gqlVars, valVars, tgVars, jsonVars, hookVars>>

CssNext == ValidateCSS

(***************************************************************************)
(* The style validator's command line: file, dir and watch mode            *)
(***************************************************************************)
\* String.prototype.endsWith
endsWith(s, suffix) == MatchesAt(s, suffix, Len(s) - Len(suffix) + 1)

\* A path is the sequence of the names path.join puts together. The file
\* system maps a path to a directory or to a file with its text; a file may
\* be unreadable.
dirNode == [kind |-> "dir"]

fileNode(readable, content) == [kind |-> "file", readable |-> readable, content |-> content]

\* fs.readFileSync(filePath, 'utf8'): the text, or the error it throws
readFileSync(fsys, filePath) ==
  IF filePath \notin DOMAIN fsys THEN [ok |-> FALSE, error |-> "ENOENT"]
  ELSE IF fsys[filePath].kind = "dir" THEN [ok |-> FALSE, error |-> "EISDIR"]
  ELSE IF ~fsys[filePath].readable THEN [ok |-> FALSE, error |-> "EACCES"]
  ELSE [ok |-> TRUE, content |-> fsys[filePath].content]

\* validateFile(filePath)
validateFile(fsys, filePath) ==
  LET read == readFileSync(fsys, filePath)
  IN  IF read.ok THEN validateCSS(read.content)
      ELSE << [line |-> 0, rule |-> "fileError",
               message |-> <<"Could not read file: ", read.error>>,
               content |-> <<>>] >>

\* the names of the modelled tree, in the order readdirSync lists them
DirOrder ==
  << <<"B","u","t","t","o","n">>, <<"B","u","t","t","o","n",".","m","o","d","u","l","e",".","c","s","s">>, <<"a",".","m","o","d","u","l","e",".","c","s","s">>, <<"t","h","e","m","e",".","c","s","s">> >>

\* fs.readdirSync(currentDir) of a directory that exists
readdirSync(fsys, currentDir) ==
  LET listed(name) == Append(currentDir, name) \in DOMAIN fsys
  IN  SelectSeq(DirOrder, listed)

\* traverse(currentDir) inside findCSSModules: the module paths it pushes, in order
RECURSIVE traverse(_, _), traverseEntries(_, _, _)
traverse(fsys, currentDir) ==
  traverseEntries(fsys, currentDir, readdirSync(fsys, currentDir))

traverseEntries(fsys, currentDir, entries) ==
  IF entries = <<>> THEN <<>>
  ELSE LET file == Head(entries)
           filePath == Append(currentDir, file)
       IN  (IF fsys[filePath].kind = "dir" THEN traverse(fsys, filePath)
            ELSE IF endsWith(file, <<".","m","o","d","u","l","e",".","c","s","s">>) THEN <<filePath>>
            ELSE <<>>)
           \o traverseEntries(fsys, currentDir, Tail(entries))

\* findCSSModules(dir); readdirSync throws when dir is missing or is a file
findCSSModules(fsys, dir) ==
  IF dir \notin DOMAIN fsys \/ fsys[dir].kind # "dir"
  THEN [threw |-> TRUE, modules |-> <<>>]
  ELSE [threw |-> FALSE, modules |-> traverse(fsys, dir)]

\* the paths of the modelled tree
ComponentsDir == << <<"c","o","m","p","o","n","e","n","t","s">> >>
ButtonDir == << <<"c","o","m","p","o","n","e","n","t","s">>, <<"B","u","t","t","o","n">> >>
MissingDir == << <<"m","i","s","s","i","n","g">> >>
ModuleA == << <<"c","o","m","p","o","n","e","n","t","s">>, <<"a",".","m","o","d","u","l","e",".","c","s","s">> >>
ModuleButton == << <<"c","o","m","p","o","n","e","n","t","s">>, <<"B","u","t","t","o","n">>, <<"B","u","t","t","o","n",".","m","o","d","u","l","e",".","c","s","s">> >>
ThemeCss == << <<"c","o","m","p","o","n","e","n","t","s">>, <<"B","u","t","t","o","n">>, <<"t","h","e","m","e",".","c","s","s">> >>
ModulePaths == {ModuleA, ModuleButton}

\* the texts a CSS file of the tree holds: one without issues, one with two
\* issues on two of its three lines, one with three issues on its only line
CleanCss == <<"d","i","v"," ","{","\n"," "," ","m","a","r","g","i","n",":"," ","1","r","e","m",";","\n","}">>
FlawedCss == <<".","a"," ","{","\n"," "," ","w","i","d","t","h",":"," ","1","0","p","x",";","\n","}">>
IdCss == <<"#","i","d"," ","{"," ","w","i","d","t","h",":"," ","1","p","x",";"," ","}">>

\* what a CSS module of the tree can be at the start
ModuleStates == {"absent", "clean", "flawed", "unreadable"}

moduleNode(state) ==
  fileNode(state # "unreadable", IF state = "flawed" THEN FlawedCss ELSE CleanCss)

\* the tree: components/ with a.module.css, Button/Button.module.css and
\* Button/theme.css, which is no CSS module
Tree(stateA, stateButton) ==
  LET base == (ComponentsDir :> dirNode) @@ (ButtonDir :> dirNode)
                @@ (ThemeCss :> fileNode(TRUE, IdCss))
      withA == IF stateA = "absent" THEN base
               ELSE base @@ (ModuleA :> moduleNode(stateA))
  IN  IF stateButton = "absent" THEN withA
      ELSE withA @@ (ModuleButton :> moduleNode(stateButton))

\* process.argv.slice(2): the command and, if given, the path
ValArgs ==
  { <<>>, <<"file">>, <<"dir">>, <<"watch">>, <<"lint">> }
    \cup {<<"file", p>> : p \in {ModuleA, ModuleButton, ThemeCss, ComponentsDir}}
    \cup {<<"dir", p>> : p \in {ComponentsDir, ButtonDir, MissingDir}}
    \cup {<<"watch", p>> : p \in {ButtonDir, MissingDir}}

\* the change events one watch run delivers at most
MaxEvents == 3

ValInit ==
  /\ valPc = "start"
  /\ valArgs \in ValArgs
  /\ vfs \in {Tree(a, b) : a \in ModuleStates, b \in ModuleStates}
  /\ valTodo = <<>>
  /\ valReports = <<>>
  /\ valTotal = 0
  /\ valLog = <<>>
  /\ valExit = "none"
  /\ watcher = "none"
  /\ pending = <<>>
  /\ nEvents = 0

ValOff ==
  /\ valPc = "off"
  /\ valArgs = <<>>
  /\ vfs = <<>>
  /\ valTodo = <<>>
  /\ valReports = <<>>
  /\ valTotal = 0
  /\ valLog = <<>>
  /\ valExit = "none"
  /\ watcher = "none"
  /\ pending = <<>>
  /\ nEvents = 0

\* const dir = args[1] || 'components'
dirArg == IF Len(valArgs) >= 2 THEN valArgs[2] ELSE ComponentsDir

\* process.exit(status), or the end of main with nothing left to run
ValEnd(status, line) ==
  /\ valPc' = "exited"
  /\ valExit' = status
  /\ valLog' = Append(valLog, line)

\* main: no command
ValUsage ==
  /\ valPc = "start"
  /\ valArgs = <<>>
  /\ ValEnd(1, "Usage: node style-validator.js <command> [options]")
  /\ UNCHANGED <<valArgs, vfs, valTodo, valReports, valTotal, watcher, pending, nEvents>>
  /\ UNCHANGED <<genVars, cssVars, gqlVars, tgVars, jsonVars, hookVars>>

\* main: default of the switch
ValUnknown ==
  /\ valPc = "start"
  /\ valArgs # <<>>
  /\ valArgs[1] \notin {"file", "dir", "watch"}
  /\ ValEnd(1, "Error: Unknown command")
  /\ UNCHANGED <<valArgs, vfs, valTodo, valReports, valTotal, watcher, pending, nEvents>>
  /\ UNCHANGED <<genVars, cssVars, gqlVars, tgVars, jsonVars, hookVars>>

\* main, case 'file' without a path
ValFileNoPath ==
  /\ valPc = "start"
  /\ valArgs = <<"file">>
  /\ ValEnd(1, "Error: File path is required")
  /\ UNCHANGED <<valArgs, vfs, valTodo, valReports, valTotal, watcher, pending, nEvents>>
  /\ UNCHANGED <<genVars, cssVars, gqlVars, tgVars, jsonVars, hookVars>>

\* main, case 'file': exit 1 when validateFile returns issues, else the end of main
ValFile ==
  /\ valPc = "start"
  /\ Len(valArgs) = 2
  /\ valArgs[1] = "file"
  /\ LET issues == validateFile(vfs, valArgs[2])
     IN  /\ valReports' = Append(valReports, [file |-> valArgs[2], issues |-> issues])
         /\ IF issues = <<>> THEN ValEnd(0, "No issues found")
            ELSE ValEnd(1, "Found issue(s)")
  /\ UNCHANGED <<valArgs, vfs, valTodo, valTotal, watcher, pending, nEvents>>
  /\ UNCHANGED <<genVars, cssVars, gqlVars, tgVars, jsonVars, hookVars>>

\* main, case 'dir': findCSSModules(dir) returns
ValDirScan ==
  /\ valPc = "start"
  /\ valArgs # <<>>
  /\ valArgs[1] = "dir"
  /\ ~findCSSModules(vfs, dirArg).threw
  /\ valTodo' = findCSSModules(vfs, dirArg).modules
  /\ valTotal' = 0
  /\ valLog' = Append(valLog, "Found CSS module(s)")
  /\ valPc' = "dir"
  /\ UNCHANGED <<valArgs, vfs, valReports, valExit, watcher, pending, nEvents>>
  /\ UNCHANGED <<genVars, cssVars, gqlVars, tgVars, jsonVars, hookVars>>

\* main, case 'dir': findCSSModules(dir) throws, nothing catches it and node
\* ends the process with status 1
ValDirThrows ==
  /\ valPc = "start"
  /\ valArgs # <<>>
  /\ valArgs[1] = "dir"
  /\ findCSSModules(vfs, dirArg).threw
  /\ ValEnd(1, "Uncaught Error")
  /\ UNCHANGED <<valArgs, vfs, valTodo, valReports, valTotal, watcher, pending, nEvents>>
  /\ UNCHANGED <<genVars, cssVars, gqlVars, tgVars, jsonVars, hookVars>>

\* a loop that gives up at the first module it cannot read
ValDirNext_abort ==
  /\ valPc = "dir"
  /\ valTodo # <<>>
  /\ LET issues == validateFile(vfs, Head(valTodo))
     IN  /\ valReports' = Append(valReports, [file |-> Head(valTodo), issues |-> issues])
         /\ valTotal' = valTotal + Len(issues)
         /\ valTodo' = IF readFileSync(vfs, Head(valTodo)).ok THEN Tail(valTodo) ELSE <<>>
  /\ UNCHANGED <<valPc, valArgs, vfs, valLog, valExit, watcher, pending, nEvents>>
  /\ UNCHANGED <<genVars, cssVars, gqlVars, tgVars, jsonVars, hookVars>>

\* a loop that keeps the count of the last module instead of adding it up
ValDirNext_lastOnly ==
  /\ valPc = "dir"
  /\ valTodo # <<>>
  /\ LET issues == validateFile(vfs, Head(valTodo))
     IN  /\ valReports' = Append(valReports, [file |-> Head(valTodo), issues |-> issues])
         /\ valTotal' = Len(issues)
  /\ valTodo' = Tail(valTodo)
  /\ UNCHANGED <<valPc, valArgs, vfs, valLog, valExit, watcher, pending, nEvents>>
  /\ UNCHANGED <<genVars, cssVars, gqlVars, tgVars, jsonVars, hookVars>>

\* main, case 'dir': one round of the loop over the modules
ValDirNext ==
  /\ valPc = "dir"
  /\ valTodo # <<>>
  /\ LET issues == validateFile(vfs, Head(valTodo))
     IN  /\ valReports' = Append(valReports, [file |-> Head(valTodo), issues |-> issues])
         /\ valTotal' = valTotal + Len(issues)
  /\ valTodo' = Tail(valTodo)
  /\ UNCHANGED <<valPc, valArgs, vfs, valLog, valExit, watcher, pending, nEvents>>
  /\ UNCHANGED <<genVars, cssVars, gqlVars, tgVars, jsonVars, hookVars>>

\* main, case 'dir': the summary and the exit status
ValDirSummary ==
  /\ valPc = "dir"
  /\ valTodo = <<>>
  /\ ValEnd(IF valTotal > 0 THEN 1 ELSE 0, "Summary")
  /\ UNCHANGED <<valArgs, vfs, valTodo, valReports, valTotal, watcher, pending, nEvents>>
  /\ UNCHANGED <<genVars, cssVars, gqlVars, tgVars, jsonVars, hookVars>>

\* main, case 'watch': chokidar.watch(path.join(dir, '**/*.module.css')) and the
\* two handlers; the path is not looked at before it is watched
ValWatch ==
  /\ valPc = "start"
  /\ valArgs # <<>>
  /\ valArgs[1] = "watch"
  /\ watcher' = "open"
  /\ valLog' = Append(valLog, "Watching directory")
  /\ valPc' = "watching"
  /\ UNCHANGED <<valArgs, vfs, valTodo, valReports, valTotal, valExit, pending, nEvents>>
  /\ UNCHANGED <<genVars, cssVars, gqlVars, tgVars, jsonVars, hookVars>>

\* the glob path.join(dir, '**/*.module.css') matches the path
matchesGlob(dir, filePath) ==
  /\ Len(filePath) > Len(dir)
  /\ SubSeq(filePath, 1, Len(dir)) = dir
  /\ endsWith(filePath[Len(filePath)], <<".","m","o","d","u","l","e",".","c","s","s">>)

\* Outside the program: a CSS module is written. The watcher reports a change
\* of a file that was there before and that its glob matches.
WriteModule(filePath, content) ==
  /\ valPc = "watching"
  /\ nEvents < MaxEvents
  /\ IF filePath \in DOMAIN vfs
     THEN vfs' = [vfs EXCEPT ![filePath].content = content]
     ELSE vfs' = vfs @@ (filePath :> fileNode(TRUE, content))
  /\ IF filePath \in DOMAIN vfs /\ watcher = "open" /\ matchesGlob(dirArg, filePath)
     THEN pending' = Append(pending, filePath) /\ nEvents' = nEvents + 1
     ELSE UNCHANGED <<pending, nEvents>>
  /\ UNCHANGED <<valPc, valArgs, valTodo, valReports, valTotal, valLog, valExit, watcher>>
  /\ UNCHANGED <<genVars, cssVars, gqlVars, tgVars, jsonVars, hookVars>>

\* Outside the program: a CSS module is deleted (no 'change' event)
Unlink(filePath) ==
  /\ valPc = "watching"
  /\ filePath \in DOMAIN vfs
  /\ vfs' = [p \in DOMAIN vfs \ {filePath} |-> vfs[p]]
  /\ UNCHANGED <<valPc, valArgs, valTodo, valReports, valTotal, valLog, valExit,
                 watcher, pending, nEvents>>
  /\ UNCHANGED <<genVars, cssVars, gqlVars, tgVars, jsonVars, hookVars>>

\* a handler that skips a change of the file it validated last
OnChange_debounced ==
  /\ valPc = "watching"
  /\ watcher = "open"
  /\ pending # <<>>
  /\ IF valReports # <<>> /\ valReports[Len(valReports)].file = Head(pending)
     THEN UNCHANGED valReports
     ELSE valReports' = Append(valReports, [file |-> Head(pending),
                                            issues |-> validateFile(vfs, Head(pending))])
  /\ pending' = Tail(pending)
  /\ valLog' = Append(valLog, "Watching...")
  /\ UNCHANGED <<valPc, valArgs, vfs, valTodo, valTotal, valExit, watcher, nEvents>>
  /\ UNCHANGED <<genVars, cssVars, gqlVars, tgVars, jsonVars, hookVars>>

\* a handler that ends the process with status 1 when the pass found issues,
\* as the file command does
OnChange_exitOnIssues ==
  /\ valPc = "watching"
  /\ watcher = "open"
  /\ pending # <<>>
  /\ valReports' = Append(valReports, [file |-> Head(pending),
                                       issues |-> validateFile(vfs, Head(pending))])
  /\ pending' = Tail(pending)
  /\ IF validateFile(vfs, Head(pending)) # <<>>
     THEN ValEnd(1, "Watching...")
     ELSE /\ valLog' = Append(valLog, "Watching...")
          /\ UNCHANGED <<valPc, valExit>>
  /\ UNCHANGED <<valArgs, vfs, valTodo, valTotal, watcher, nEvents>>
  /\ UNCHANGED <<genVars, cssVars, gqlVars, tgVars, jsonVars, hookVars>>

\* watcher.on('change', ...): the handler runs once for the oldest event
OnChange ==
  /\ valPc = "watching"
  /\ watcher = "open"
  /\ pending # <<>>
  /\ valReports' = Append(valReports, [file |-> Head(pending),
                                       issues |-> validateFile(vfs, Head(pending))])
  /\ pending' = Tail(pending)
  /\ valLog' = Append(valLog, "Watching...")
  /\ UNCHANGED <<valPc, valArgs, vfs, valTodo, valTotal, valExit, watcher, nEvents>>
  /\ UNCHANGED <<genVars, cssVars, gqlVars, tgVars, jsonVars, hookVars>>

\* a handler that leaves the process without closing the watcher
OnSigint_noClose ==
  /\ valPc = "watching"
  /\ ValEnd(0, "Stopping file watcher")
  /\ UNCHANGED <<valArgs, vfs, valTodo, valReports, valTotal, watcher, pending, nEvents>>
  /\ UNCHANGED <<genVars, cssVars, gqlVars, tgVars, jsonVars, hookVars>>

\* process.on('SIGINT', ...): watcher.close(), then process.exit(0)
OnSigint ==
  /\ valPc = "watching"
  /\ watcher' = "closed"
  /\ ValEnd(0, "Stopping file watcher")
  /\ UNCHANGED <<valArgs, vfs, valTodo, valReports, valTotal, pending, nEvents>>
  /\ UNCHANGED <<genVars, cssVars, gqlVars, tgVars, jsonVars, hookVars>>

ValNext ==
  \/ ValUsage
  \/ ValUnknown
  \/ ValFileNoPath
  \/ ValFile
  \/ ValDirScan
  \/ ValDirThrows
  \/ ValDirNext
  \/ ValDirSummary
  \/ ValWatch
  \/ \E p \in ModulePaths : \E c \in {CleanCss, FlawedCss} : WriteModule(p, c)
  \/ \E p \in ModulePaths : Unlink(p)
  \/ OnChange
  \/ OnSigint

(***************************************************************************)
(* The type generator                                                      *)
(***************************************************************************)
RECURSIVE joinWith(_, _)
joinWith(strs, sep) ==
  IF strs = <<>> THEN <<>>
  ELSE IF Len(strs) = 1 THEN strs[1]
  ELSE strs[1] \o sep \o joinWith(Tail(strs), sep)

\* one line of props in generateTypeScriptTypes (a property may lack a description)
propLine(prop) ==
  (IF "description" \in DOMAIN prop /\ prop.description # <<>>
   THEN <<" "," ","/","*","*"," ">> \o prop.description \o <<" ","*","/","\n">> ELSE <<>>)
    \o <<" "," ">> \o prop.name \o (IF prop.required THEN <<>> ELSE <<"?">>)
    \o <<":"," ">> \o prop.type \o <<";">>

\* generateTypeScriptTypes with a props interface that inherits its fields
generateTypeScriptTypes_extends(name, properties) ==
  LET props == joinWith([i \in DOMAIN properties |-> propLine(properties[i])], <<"\n">>)
  IN  <<"e","x","p","o","r","t"," ","i","n","t","e","r","f","a","c","e"," ">> \o name \o <<" ","{","\n">> \o props \o <<"\n","}","\n","\n","e","x","p","o","r","t"," ","i","n","t","e","r","f","a","c","e"," ">>
        \o name \o <<"P","r","o","p","s"," ","e","x","t","e","n","d","s"," ">> \o name \o <<" ","{","\n","\n","}","\n">>

\* generateTypeScriptTypes with interfaces = [] (both callers pass it so)
generateTypeScriptTypes(name, properties) ==
  LET props == joinWith([i \in DOMAIN properties |-> propLine(properties[i])], <<"\n">>)
      interfaceDefinition == <<"e","x","p","o","r","t"," ","i","n","t","e","r","f","a","c","e"," ">> \o name \o <<" ","{","\n">> \o props \o <<"\n","}">>
      propsInterface == <<"e","x","p","o","r","t"," ","i","n","t","e","r","f","a","c","e"," ">> \o name \o <<"P","r","o","p","s"," ","{","\n">> \o props \o <<"\n","}">>
  IN  interfaceDefinition \o <<"\n","\n">> \o propsInterface \o <<"\n">>

\* the end of the run of characters of `set` (or outside it) that starts at i:
\* the position after the run
RECURSIVE runEnd(_, _, _, _)
runEnd(s, i, set, inside) ==
  IF i <= Len(s) /\ ((s[i] \in set) = inside) THEN runEnd(s, i + 1, set, inside) ELSE i

\* line.match(/^\s*(\w+)(\!?):\s*([^\s]+)/): the three groups, or NoMatch
NoMatch == [matched |-> FALSE]

fieldMatch(line) ==
  LET a == runEnd(line, 1, WhiteSpace, TRUE)      \* start of (\w+)
      b == runEnd(line, a, WordChars, TRUE)       \* after (\w+)
      hasBang == b <= Len(line) /\ line[b] = "!"
      c == IF hasBang THEN b + 1 ELSE b           \* the colon
      d == runEnd(line, c + 1, WhiteSpace, TRUE)  \* start of ([^\s]+)
      e == runEnd(line, d, WhiteSpace, FALSE)     \* after ([^\s]+)
  IN  IF b > a /\ c <= Len(line) /\ line[c] = ":" /\ e > d
      THEN [matched |-> TRUE, name |-> SubSeq(line, a, b - 1),
            bang |-> IF hasBang THEN <<"!">> ELSE <<>>,
            type |-> SubSeq(line, d, e - 1)]
      ELSE NoMatch

\* type.replace('!', ''): the first occurrence only
removeFirstBang(type) ==
  LET j == NextMatch(type, <<"!">>, 1)
  IN  IF j = 0 THEN type ELSE SubSeq(type, 1, j - 1) \o SubSeq(type, j + 1, Len(type))

\* the loop of generateFromGraphQL from line k on
RECURSIVE graphqlProperties(_, _, _, _)
graphqlProperties(lines, typeName, k, inTargetType) ==
  IF k > Len(lines) THEN <<>>
  ELSE IF includes(lines[k], <<"t","y","p","e"," ">> \o typeName)
       THEN graphqlProperties(lines, typeName, k + 1, TRUE)
  ELSE IF ~inTargetType THEN graphqlProperties(lines, typeName, k + 1, FALSE)
  ELSE IF includes(lines[k], <<"}">>) THEN <<>>
  ELSE LET m == fieldMatch(lines[k])
       IN  (IF trim(lines[k]) # <<>> /\ ~startsWith(lines[k], <<"#">>) /\ m.matched
            THEN << [name |-> m.name, type |-> removeFirstBang(m.type),
                     required |-> m.bang = <<"!">>] >>
            ELSE <<>>)
           \o graphqlProperties(lines, typeName, k + 1, TRUE)

\* generateFromGraphQL: the text returned, or the error thrown
generateFromGraphQL(schema, typeName) ==
  LET lines == split(schema, "\n")
      inType == \E k \in DOMAIN lines : includes(lines[k], <<"t","y","p","e"," ">> \o typeName)
  IN  IF ~inType
      THEN [threw |-> TRUE,
            text |-> <<"T","y","p","e"," ">> \o typeName \o <<" ","n","o","t"," ","f","o","u","n","d"," ","i","n"," ","G","r","a","p","h","Q","L"," ","s","c","h","e","m","a">>]
      ELSE [threw |-> FALSE,
            text |-> generateTypeScriptTypes(typeName,
                       graphqlProperties(lines, typeName, 1, FALSE))]

\* the schema texts and type names given to the type generator
MaxSchemaLines == 4

GqlTypeNames == { <<"U","s","e","r">>, <<"U","s","e","r","P","r","o","f","i","l","e">>, <<"P","o","s","t">> }

GqlLines ==
  { <<"t","y","p","e"," ","U","s","e","r"," ","{">>, <<"t","y","p","e"," ","U","s","e","r","P","r","o","f","i","l","e"," ","{">>, <<"t","y","p","e"," ","U","s","e","r"," ","{"," ","i","d",":"," ","I","D","!"," ","n","a","m","e",":"," ","S","t","r","i","n","g"," ","}">>,
    <<" "," ","i","d",":"," ","I","D","!">>, <<" "," ","n","a","m","e",":"," ","S","t","r","i","n","g">>, <<" "," ","a","g","e","!",":"," ","I","n","t">>, <<"}">>, <<"#"," ","a"," ","c","o","m","m","e","n","t">> }

GqlSchemas ==
  UNION {{joinLines(ls) : ls \in [1..n -> GqlLines]} : n \in 1..MaxSchemaLines}

NoResult == [threw |-> FALSE, text |-> <<>>]

GqlInit ==
  /\ gqlPc = "start"
  /\ gqlSchema \in GqlSchemas
  /\ gqlTypeName \in GqlTypeNames
  /\ gqlResult = NoResult

GqlOff ==
  /\ gqlPc = "off"
  /\ gqlSchema = <<>>
  /\ gqlTypeName = <<>>
  /\ gqlResult = NoResult

\* generateFromGraphQL(schema, typeName)
GenerateFromGraphQL ==
  /\ gqlPc = "start"
  /\ gqlResult' = generateFromGraphQL(gqlSchema, gqlTypeName)
  /\ gqlPc' = IF gqlResult'.threw THEN "threw" ELSE "returned"
  /\ UNCHANGED <<gqlSchema, gqlTypeName>>
  /\ UNCHANGED <<genVars, cssVars, valVars, tgVars, jsonVars, hookVars>>

GqlNext == GenerateFromGraphQL

(***************************************************************************)
(* The type generator's command line                                       *)
(***************************************************************************)
\* one round of the loop of generateFromJSON: the Property pushed for an entry
\* of jsonSchema.properties (a field of the schema or of the entry may be absent)
jsonProperty(jsonSchema, entry) ==
  LET prop == entry.value
      type == IF "type" \in DOMAIN prop THEN prop.type ELSE <<>>
      itemsType == IF "items" \in DOMAIN prop /\ "type" \in DOMAIN prop.items
                      /\ prop.items.type # <<>>
                   THEN prop.items.type ELSE <<"a","n","y">>
      tsType == IF type = <<"s","t","r","i","n","g">> THEN <<"s","t","r","i","n","g">>
                ELSE IF type = <<"n","u","m","b","e","r">> THEN <<"n","u","m","b","e","r">>
                ELSE IF type = <<"b","o","o","l","e","a","n">> THEN <<"b","o","o","l","e","a","n">>
                ELSE IF type = <<"a","r","r","a","y">> THEN itemsType \o <<"[","]">>
                ELSE IF type = <<"o","b","j","e","c","t">>
                     THEN (IF "additionalProperties" \in DOMAIN prop /\ prop.additionalProperties
                           THEN <<"R","e","c","o","r","d","<","s","t","r","i","n","g",","," ","a","n","y",">">> ELSE <<"o","b","j","e","c","t">>)
                ELSE <<"a","n","y">>
      pushed == [name |-> entry.key, type |-> tsType,
                 required |-> "required" \in DOMAIN jsonSchema
                                /\ entry.key \in Range(jsonSchema.required)]
  IN  IF "description" \in DOMAIN prop
      THEN pushed @@ [description |-> prop.description]
      ELSE pushed

\* the value JSON.parse returns for the text null
NullValue == [isNull |-> TRUE]

\* generateFromJSON with the entries taken last to first
generateFromJSON_reversed(jsonSchema, typeName) ==
  IF jsonSchema = NullValue
  THEN [threw |-> TRUE, text |-> <<>>]
  ELSE [threw |-> FALSE,
        text |-> generateTypeScriptTypes(typeName,
                   IF "properties" \in DOMAIN jsonSchema
                   THEN [i \in DOMAIN jsonSchema.properties |->
                           jsonProperty(jsonSchema,
                             jsonSchema.properties[Len(jsonSchema.properties) + 1 - i])]
                   ELSE <<>>)]

\* generateFromJSON(jsonSchema, typeName): the text returned; reading a property
\* of null throws
generateFromJSON(jsonSchema, typeName) ==
  IF jsonSchema = NullValue
  THEN [threw |-> TRUE, text |-> <<"C","a","n","n","o","t"," ","r","e","a","d"," ","p","r","o","p","e","r","t","i","e","s"," ","o","f"," ","n","u","l","l"," ","(","r","e","a","d","i","n","g"," ","'","p","r","o","p","e","r","t","i","e","s","'",")">>]
  ELSE [threw |-> FALSE,
        text |-> generateTypeScriptTypes(typeName,
                   IF "properties" \in DOMAIN jsonSchema
                   THEN [i \in DOMAIN jsonSchema.properties |->
                           jsonProperty(jsonSchema, jsonSchema.properties[i])]
                   ELSE <<>>)]

\* the files the type generator is pointed at
UserJsonText == <<"{","\\","\"","p","r","o","p","e","r","t","i","e","s","\\","\"",":","{","\\","\"","i","d","\\","\"",":","{","\\","\"","t","y","p","e","\\","\"",":","\\","\"","s","t","r","i","n","g","\\","\"","}","}",",","\\","\"","r","e","q","u","i","r","e","d","\\","\"",":","[","\\","\"","i","d","\\","\"","]","}">>
UserJsonValue ==
  [properties |-> << [key |-> <<"i","d">>, value |-> [type |-> <<"s","t","r","i","n","g">>]] >>,
   required |-> << <<"i","d">> >>]
NullJsonText == <<"n","u","l","l">>
SchemaGraphqlText == <<"t","y","p","e"," ","U","s","e","r","P","r","o","f","i","l","e"," ","{","\n"," "," ","i","d",":"," ","I","D","!","\n","}">>

\* JSON.parse of the modelled texts: the two JSON documents parse to their
\* values, any other text of the model is no JSON
JSONparse(text) ==
  IF text = UserJsonText THEN [threw |-> FALSE, value |-> UserJsonValue]
  ELSE IF text = NullJsonText THEN [threw |-> FALSE, value |-> NullValue]
  ELSE [threw |-> TRUE, value |-> NullValue]

TgCommands == { <<"j","s","o","n">>, <<"g","r","a","p","h","q","l">>, <<"x","m","l">> }
TgSchemaFiles == { <<"u","s","e","r",".","j","s","o","n">>, <<"n","u","l","l",".","j","s","o","n">>, <<"s","c","h","e","m","a",".","g","r","a","p","h","q","l">>, <<"n","o","f","i","l","e">>, <<>> }
TgTypeNames == { <<"U","s","e","r">>, <<"U","s","e","r","P","r","o","f","i","l","e">>, <<"P","o","s","t">>, <<>> }
TgOutputFiles == { <<"o","u","t",".","t","s">> }

\* process.argv.slice(2): every prefix of command, schema file, type name and
\* output file
TgArgs ==
  {<<>>} \cup {<<c>> : c \in TgCommands}
    \cup {<<c, f>> : c \in TgCommands, f \in TgSchemaFiles}
    \cup {<<c, f, t>> : c \in TgCommands, f \in TgSchemaFiles, t \in TgTypeNames}
    \cup {<<c, f, t, o>> : c \in TgCommands, f \in TgSchemaFiles, t \in TgTypeNames,
                           o \in TgOutputFiles}

\* the files of the working directory when the type generator starts
TgFilesAtStart ==
  (<<"u","s","e","r",".","j","s","o","n">> :> UserJsonText) @@ (<<"n","u","l","l",".","j","s","o","n">> :> NullJsonText)
    @@ (<<"s","c","h","e","m","a",".","g","r","a","p","h","q","l">> :> SchemaGraphqlText)

TgInit ==
  /\ tgPc = "start"
  /\ tgArgs \in TgArgs
  /\ tgFiles = TgFilesAtStart
  /\ tgExit = "none"
  /\ tgError = <<>>

TgOff ==
  /\ tgPc = "off"
  /\ tgArgs = <<>>
  /\ tgFiles = <<>>
  /\ tgExit = "none"
  /\ tgError = <<>>

\* the try block of main up to the call of writeFileSync, for args.length >= 2:
\* the error thrown, or the output file and its text
tgOutput(args, fsys) ==
  LET command == args[1]
      rest == Tail(args)
      missing == \/ rest[1] = <<>>
                 \/ Len(rest) < 2
                 \/ rest[2] = <<>>
      outputFile == IF Len(rest) >= 3 /\ rest[3] # <<>> THEN rest[3]
                    ELSE toLowerCase(rest[2]) \o <<".","t","s">>
      failed(message) == [threw |-> TRUE, message |-> message]
      done(text) == [threw |-> FALSE, outputFile |-> outputFile, output |-> text]
  IN  IF command = <<"j","s","o","n">>
      THEN IF missing THEN failed(<<"JSON schema file and type name are required">>)
           ELSE IF rest[1] \notin DOMAIN fsys THEN failed(<<"ENOENT">>)
           ELSE IF JSONparse(fsys[rest[1]]).threw THEN failed(<<"SyntaxError">>)
           ELSE LET generated == generateFromJSON(JSONparse(fsys[rest[1]]).value, rest[2])
                IN  IF generated.threw THEN failed(generated.text)
                    ELSE done(generated.text)
      ELSE IF command = <<"g","r","a","p","h","q","l">>
      THEN IF missing THEN failed(<<"GraphQL schema file and type name are required">>)
           ELSE IF rest[1] \notin DOMAIN fsys THEN failed(<<"ENOENT">>)
           ELSE LET generated == generateFromGraphQL(fsys[rest[1]], rest[2])
                IN  IF generated.threw THEN failed(generated.text)
                    ELSE done(generated.text)
      ELSE failed(<<"Unknown command: ", command>>)

\* a catch that reports the error but leaves with status 0
TgExit1_status0(message) ==
  /\ tgPc' = "exited"
  /\ tgExit' = 0
  /\ tgError' = message
  /\ UNCHANGED <<tgArgs, tgFiles>>

\* process.exit(1) of the type generator
TgExit1(message) ==
  /\ tgPc' = "exited"
  /\ tgExit' = 1
  /\ tgError' = message
  /\ UNCHANGED <<tgArgs, tgFiles>>

\* main: args.length < 2
TgUsage ==
  /\ tgPc = "start"
  /\ Len(tgArgs) < 2
  /\ TgExit1(<<"Usage: node type-generator.ts <command> <options>">>)
  /\ UNCHANGED <<genVars, cssVars, gqlVars, valVars, jsonVars, hookVars>>

\* main: the try block throws before the write, the catch exits
TgThrows ==
  /\ tgPc = "start"
  /\ Len(tgArgs) >= 2
  /\ tgOutput(tgArgs, tgFiles).threw
  /\ TgExit1(tgOutput(tgArgs, tgFiles).message)
  /\ UNCHANGED <<genVars, cssVars, gqlVars, valVars, jsonVars, hookVars>>

\* main: fs.writeFileSync(outputFile, output) and the end of main
TgWrite ==
  /\ tgPc = "start"
  /\ Len(tgArgs) >= 2
  /\ ~tgOutput(tgArgs, tgFiles).threw
  /\ LET out == tgOutput(tgArgs, tgFiles)
     IN  tgFiles' = [f \in DOMAIN tgFiles \cup {out.outputFile} |->
                       IF f = out.outputFile THEN out.output ELSE tgFiles[f]]
  /\ tgPc' = "exited"
  /\ tgExit' = 0
  /\ UNCHANGED <<tgArgs, tgError>>
  /\ UNCHANGED <<genVars, cssVars, gqlVars, valVars, jsonVars, hookVars>>

\* main: fs.writeFileSync throws, the catch exits
TgWriteFails ==
  /\ tgPc = "start"
  /\ Len(tgArgs) >= 2
  /\ ~tgOutput(tgArgs, tgFiles).threw
  /\ TgExit1(<<"EACCES">>)
  /\ UNCHANGED <<genVars, cssVars, gqlVars, valVars, jsonVars, hookVars>>

TgNext ==
  \/ TgUsage
  \/ TgThrows
  \/ TgWrite
  \/ TgWriteFails

(***************************************************************************)
(* generateFromJSON called on its own                                      *)
(***************************************************************************)

\* the most properties a schema given to generateFromJSON has
MaxProperties == 2

\* the property names of the schemas, none of them an integer index, in the
\* orders the maps hold them
JsonKeyOrders ==
  { << <<"i","d">>, <<"t","a","g","s">>, <<"m","e","t","a">> >>,
    << <<"t","a","g","s">>, <<"i","d">>, <<"m","e","t","a">> >> }

\* the property schemas: every case of the switch, with and without items,
\* additionalProperties and description
JsonProps ==
  { [type |-> <<"s","t","r","i","n","g">>],
    [type |-> <<"n","u","m","b","e","r">>],
    [type |-> <<"b","o","o","l","e","a","n">>],
    [type |-> <<"a","r","r","a","y">>],
    [type |-> <<"a","r","r","a","y">>, items |-> [type |-> <<"s","t","r","i","n","g">>]],
    [type |-> <<"a","r","r","a","y">>, items |-> [description |-> <<"x">>]],
    [type |-> <<"o","b","j","e","c","t">>],
    [type |-> <<"o","b","j","e","c","t">>, additionalProperties |-> TRUE],
    [type |-> <<"o","b","j","e","c","t">>, additionalProperties |-> FALSE],
    [type |-> <<"i","n","t","e","g","e","r">>],
    [description |-> <<"u","n","t","y","p","e","d">>],
    [type |-> <<"s","t","r","i","n","g">>, description |-> <<"T","h","e"," ","i","d">>] }

\* Object.entries of the properties maps: the first keys of an order, each
\* with a property schema
JsonEntries ==
  UNION { { [i \in 1..n |-> [key |-> ks[i], value |-> vs[i]]] :
              ks \in JsonKeyOrders, vs \in [1..n -> JsonProps] } :
          n \in 0..MaxProperties }

\* the required lists
JsonRequired == { <<>>, << <<"i","d">> >>, << <<"t","a","g","s">>, <<"i","d">> >> }

\* the schemas: properties and required are each present or absent
JsonSchemas ==
  { [title |-> <<"T">>] }
    \cup { [properties |-> es] : es \in JsonEntries }
    \cup { [required |-> r] : r \in JsonRequired }
    \cup { [properties |-> es, required |-> r] : es \in JsonEntries, r \in JsonRequired }

JsonTypeNames == { <<"U","s","e","r">> }

JsonInit ==
  /\ jsonPc = "start"
  /\ jsonGiven \in JsonSchemas
  /\ jsonTypeName \in JsonTypeNames
  /\ jsonResult = NoResult

JsonOff ==
  /\ jsonPc = "off"
  /\ jsonGiven = <<>>
  /\ jsonTypeName = <<>>
  /\ jsonResult = NoResult

\* generateFromJSON(jsonSchema, typeName)
GenerateFromJSON ==
  /\ jsonPc = "start"
  /\ jsonResult' = generateFromJSON(jsonGiven, jsonTypeName)
  /\ jsonPc' = IF jsonResult'.threw THEN "threw" ELSE "returned"
  /\ UNCHANGED <<jsonGiven, jsonTypeName>>
  /\ UNCHANGED <<genVars, cssVars, gqlVars, valVars, tgVars, hookVars>>

JsonNext == GenerateFromJSON

(***************************************************************************)
(* The style validator run on the stylesheets the generator writes         *)
(***************************************************************************)

\* component names that start with a lowercase letter and hold letters and
\* digits only
PlainNames ==
  { <<"n","a","v">>, <<"a">>, <<"b","o","x">>, <<"c","a","r","d","2">>, <<"n","a","v","B","a","r">>, <<"x","1">>, <<"b","t","n">>, <<"l","i","s","t">>, <<"f","o","r","m">>,
    <<"i","t","e","m","9">>, <<"z">>, <<"t","a","b">>, <<"m","e","n","u">>, <<"u","s","e","r","C","a","r","d">> }

\* the content of <name>.module.css for every template type createComponent
\* renders a stylesheet from
GeneratedCss ==
  { cssContent(cssTemplates[type], name) :
      type \in {"simple", "interactive", "data", "form"}, name \in PlainNames }

\* validateCSS is given a stylesheet of the generator
GeneratedCssInit ==
  /\ cssPc = "start"
  /\ cssSource \in GeneratedCss
  /\ cssIssues = <<>>

(***************************************************************************)
(* The hooks useDebounce and useDebouncedSearch                            *)
(***************************************************************************)

HookOff ==
  /\ hkQuery = <<>>
  /\ hkTimer = FALSE
  /\ hkDebounced = <<>>
  /\ hkResults = 0
  /\ hkLoading = FALSE
  /\ hkError = 0
  /\ hkRef = 0
  /\ hkAborted = {}
  /\ hkInflight = {}
  /\ hkCalls = 0
  /\ hkCleanup = FALSE

\* the values the query is set to; the last is blank
HookQueries == { <<>>, <<"a">>, <<"a","b">>, <<" ">> }

\* the most calls of searchFunction in a behaviour
MaxCalls == 3

\* after the first render and its effects: query and debouncedValue are '',
\* useDebounce has set its first timeout, the search effect found a blank query
HookInit ==
  /\ hkQuery = <<>>
  /\ hkTimer = TRUE
  /\ hkDebounced = <<>>
  /\ hkResults = 0
  /\ hkLoading = FALSE
  /\ hkError = 0
  /\ hkRef = 0
  /\ hkAborted = {}
  /\ hkInflight = {}
  /\ hkCalls = 0
  /\ hkCleanup = FALSE

\* the signal of abortControllerRef.current is aborted
currentAborted == hkRef \in hkAborted

\* setQuery(q) with a new value: the component renders again, the effect of
\* useDebounce is cleaned up (clearTimeout) and run again (setTimeout)
SetQuery(q) ==
  /\ q # hkQuery
  /\ hkQuery' = q
  /\ hkTimer' = TRUE
  /\ UNCHANGED <<hkDebounced, hkResults, hkLoading, hkError, hkRef, hkAborted,
                 hkInflight, hkCalls, hkCleanup>>
  /\ UNCHANGED <<genVars, cssVars, gqlVars, valVars, tgVars, jsonVars>>

\* the timeout of useDebounce fires with the value it was set for, which the
\* debounced value already has: setDebouncedValue changes nothing
TimerIdle ==
  /\ hkTimer
  /\ hkQuery = hkDebounced
  /\ hkTimer' = FALSE
  /\ UNCHANGED <<hkQuery, hkDebounced, hkResults, hkLoading, hkError, hkRef, hkAborted,
                 hkInflight, hkCalls, hkCleanup>>
  /\ UNCHANGED <<genVars, cssVars, gqlVars, valVars, tgVars, jsonVars>>

\* the controllers aborted once the cleanup of the last search effect has run
afterCleanup ==
  IF hkCleanup /\ hkRef # 0 THEN hkAborted \cup {hkRef} ELSE hkAborted

\* the timeout fires with a new value that is blank: the last search effect is
\* cleaned up and the effect runs again, on its first branch
DebouncedBlank ==
  /\ hkTimer
  /\ hkQuery # hkDebounced
  /\ trim(hkQuery) = <<>>
  /\ hkTimer' = FALSE
  /\ hkDebounced' = hkQuery
  /\ hkAborted' = afterCleanup
  /\ hkResults' = 0
  /\ hkError' = 0
  /\ hkCleanup' = FALSE
  /\ UNCHANGED <<hkQuery, hkLoading, hkRef, hkInflight, hkCalls>>
  /\ UNCHANGED <<genVars, cssVars, gqlVars, valVars, tgVars, jsonVars>>

\* the timeout fires with a new value that is not blank: the last search effect
\* is cleaned up and the effect runs again; fetchResults aborts the controller
\* of the ref, puts a new one there and calls searchFunction
DebouncedSearch ==
  /\ hkTimer
  /\ hkQuery # hkDebounced
  /\ trim(hkQuery) # <<>>
  /\ hkCalls < MaxCalls
  /\ hkTimer' = FALSE
  /\ hkDebounced' = hkQuery
  /\ hkCalls' = hkCalls + 1
  /\ hkAborted' = afterCleanup \cup (IF hkRef # 0 THEN {hkRef} ELSE {})
  /\ hkRef' = hkCalls + 1
  /\ hkLoading' = TRUE
  /\ hkError' = 0
  /\ hkInflight' = hkInflight \cup {hkCalls + 1}
  /\ hkCleanup' = TRUE
  /\ UNCHANGED <<hkQuery, hkResults>>
  /\ UNCHANGED <<genVars, cssVars, gqlVars, valVars, tgVars, jsonVars>>

\* the promise of search call c is fulfilled: fetchResults goes on after its
\* await, through the try block and the finally block
Fulfilled(c) ==
  /\ c \in hkInflight
  /\ hkInflight' = hkInflight \ {c}
  /\ hkResults' = IF ~currentAborted THEN c ELSE hkResults
  /\ hkLoading' = IF ~currentAborted THEN FALSE ELSE hkLoading
  /\ UNCHANGED <<hkQuery, hkTimer, hkDebounced, hkError, hkRef, hkAborted, hkCalls,
                 hkCleanup>>
  /\ UNCHANGED <<genVars, cssVars, gqlVars, valVars, tgVars, jsonVars>>

\* the promise of search call c is rejected with an Error that is no
\* AbortError: the catch block and the finally block
Rejected(c) ==
  /\ c \in hkInflight
  /\ hkInflight' = hkInflight \ {c}
  /\ hkError' = c
  /\ hkLoading' = IF ~currentAborted THEN FALSE ELSE hkLoading
  /\ UNCHANGED <<hkQuery, hkTimer, hkDebounced, hkResults, hkRef, hkAborted, hkCalls,
                 hkCleanup>>
  /\ UNCHANGED <<genVars, cssVars, gqlVars, valVars, tgVars, jsonVars>>

\* clearResults(): setQuery(''), setResults([]), setError(null)
ClearResults ==
  /\ hkQuery' = <<>>
  /\ hkTimer' = IF hkQuery # <<>> THEN TRUE ELSE hkTimer
  /\ hkResults' = 0
  /\ hkError' = 0
  /\ UNCHANGED <<hkDebounced, hkLoading, hkRef, hkAborted, hkInflight, hkCalls, hkCleanup>>
  /\ UNCHANGED <<genVars, cssVars, gqlVars, valVars, tgVars, jsonVars>>

HookNext ==
  \/ \E q \in HookQueries : SetQuery(q)
  \/ TimerIdle
  \/ DebouncedBlank
  \/ DebouncedSearch
  \/ \E c \in 1..MaxCalls : Fulfilled(c)
  \/ \E c \in 1..MaxCalls : Rejected(c)
  \/ ClearResults

(***************************************************************************)
(* The specifications: the tools and the hook share no state, one each    *)
(***************************************************************************)
\* the component generator, invoked again and again on one component name
Init == GenInit /\ CssOff /\ GqlOff /\ ValOff /\ TgOff /\ JsonOff /\ HookOff

Next == GenNext

Spec == Init /\ [][Next]_vars

\* the style validator applied to one CSS module
InitCSS == CssInit /\ GenOff /\ GqlOff /\ ValOff /\ TgOff /\ JsonOff /\ HookOff

NextCSS == CssNext

SpecCSS == InitCSS /\ [][NextCSS]_vars

\* the type generator applied to one GraphQL schema
InitGQL == GqlInit /\ GenOff /\ CssOff /\ ValOff /\ TgOff /\ JsonOff /\ HookOff

NextGQL == GqlNext

SpecGQL == InitGQL /\ [][NextGQL]_vars

\* the style validator run from the command line on a small tree
InitVal == ValInit /\ GenOff /\ CssOff /\ GqlOff /\ TgOff /\ JsonOff /\ HookOff

NextVal == ValNext

SpecVal == InitVal /\ [][NextVal]_vars

\* the type generator run from the command line
InitTG == TgInit /\ GenOff /\ CssOff /\ GqlOff /\ ValOff /\ JsonOff /\ HookOff

NextTG == TgNext

SpecTG == InitTG /\ [][NextTG]_vars

\* generateFromJSON on its own
InitJSON == JsonInit /\ GenOff /\ CssOff /\ GqlOff /\ ValOff /\ TgOff /\ HookOff

NextJSON == JsonNext

SpecJSON == InitJSON /\ [][NextJSON]_vars

\* the two schema readers of the type generator
InitTypes ==
  \/ InitGQL
  \/ InitJSON

NextTypes ==
  \/ NextGQL
  \/ NextJSON

SpecTypes == InitTypes /\ [][NextTypes]_vars

\* validateCSS on the stylesheets of the generator
InitGenCSS ==
  GeneratedCssInit /\ GenOff /\ GqlOff /\ ValOff /\ TgOff /\ JsonOff /\ HookOff

NextGenCSS == CssNext

SpecGenCSS == InitGenCSS /\ [][NextGenCSS]_vars

\* a component that uses useDebouncedSearch, from its first render on
InitHook == HookInit /\ GenOff /\ CssOff /\ GqlOff /\ ValOff /\ TgOff /\ JsonOff

NextHook == HookNext

SpecHook == InitHook /\ [][NextHook]_vars

\* any one of the three command-line tools, run once from its command line
InitCLI ==
  \/ Init
  \/ InitVal
  \/ InitTG

NextCLI ==
  \/ Next
  \/ NextVal
  \/ NextTG

SpecCLI == InitCLI /\ [][NextCLI]_vars


(***************************************************************************)
(* Claims about the style validator, checked under SpecCSS                 *)
(***************************************************************************)
\* a selector of the form .name with name in camelCase
camelCaseClassSelector(selector) ==
  /\ selector # <<>>
  /\ selector[1] = "."
  /\ classNamingTest(Tail(selector))

\* every line of the text that is not skipped and holds a brace has such a selector
onlyCamelCaseClassSelectors(text) ==
  \A line \in Range(split(text, "\n")) :
    LET trimmed == trim(line)
    IN  ( /\ trimmed # <<>>
          /\ ~startsWith(trimmed, <<"/","*">>)
          /\ ~startsWith(trimmed, <<"/","/">>)
          /\ includes(trimmed, <<"{">>) )
          => camelCaseClassSelector(trim(split(trimmed, "{")[1]))

\* C1 (as claimed): validateCSS returns no issue for a CSS module whose selector
\* lines are all of the form `.name { ... }` with a camelCase name and which
\* holds no px value.
C1_CamelCaseClassesYieldNoIssues ==
  ( /\ cssPc = "validated"
    /\ onlyCamelCaseClassSelectors(cssSource)
    /\ countUnit(cssSource, {<<"p","x">>}) = 0 )
    => cssIssues = <<>>

\* the lines of the validated text, as validateCSS numbers them
sourceLines == split(cssSource, "\n")

\* a line validateCSS looks at: not blank and not starting a comment
checkedLine(line) ==
  /\ trim(line) # <<>>
  /\ ~startsWith(trim(line), <<"/","*">>)
  /\ ~startsWith(trim(line), <<"/","/">>)

\* the text before the first brace of the line holds the character c
selectorPartHolds(line, c) ==
  \E j \in DOMAIN line :
    /\ line[j] = c
    /\ \A m \in 1..j : line[m] # "{"
    /\ \E b \in DOMAIN line : line[b] = "{"

\* the number of issues of the rule reported at the line
issuesAt(issues, rule, lineNum) ==
  Cardinality({i \in DOMAIN issues : issues[i].rule = rule /\ issues[i].line = lineNum})

\* C12: a line that is not skipped and whose text before the first brace holds
\* a # gets at least one noIds issue carrying its 1-based line number, and no
\* other line gets a noIds issue.
C12_IdSelectorsYieldNoIds ==
  cssPc = "validated" =>
    \A k \in DOMAIN sourceLines :
      (checkedLine(sourceLines[k]) /\ selectorPartHolds(sourceLines[k], "#"))
        <=> issuesAt(cssIssues, "noIds", k) >= 1

\* a # in the middle of the selector of the second line is reported at line 2
C12_Witness ==
  /\ cssPc = "validated"
  /\ Len(sourceLines) = 2
  /\ sourceLines[2] = <<"d","i","v","#","m","a","i","n"," ","{"," ","c","o","l","o","r",":"," ","r","e","d",";"," ","}">>
  /\ issuesAt(cssIssues, "noIds", 2) = 1
  /\ issuesAt(cssIssues, "noIds", 1) = 0

\* the line holds a px value: digits followed by px, standing as a word
holdsValue(line, unit) ==
  \E i \in DOMAIN line : \E j \in i..Len(line) :
    /\ \A m \in i..j : line[m] \in DigitChars
    /\ (i = 1 \/ line[i - 1] \notin WordChars)
    /\ j + Len(unit) <= Len(line)
    /\ SubSeq(line, j + 1, j + Len(unit)) = unit
    /\ (j + Len(unit) = Len(line) \/ line[j + Len(unit) + 1] \notin WordChars)

\* C13: every line that is not blank and not a comment, with or without a
\* brace, gets exactly one preferRelativeUnits issue at its line number when it
\* holds a px value and no rem or em value, and none otherwise.
C13_PxWithoutRelativeUnit ==
  cssPc = "validated" =>
    \A k \in DOMAIN sourceLines :
      checkedLine(sourceLines[k]) =>
        issuesAt(cssIssues, "preferRelativeUnits", k) =
          (IF /\ holdsValue(sourceLines[k], <<"p","x">>)
              /\ ~holdsValue(sourceLines[k], <<"r","e","m">>)
              /\ ~holdsValue(sourceLines[k], <<"e","m">>)
           THEN 1 ELSE 0)

\* a declaration line without a brace is reported, a line mixing px and rem is not
C13_Witness ==
  /\ cssPc = "validated"
  /\ Len(sourceLines) = 2
  /\ sourceLines[1] = <<" "," ","p","a","d","d","i","n","g",":"," ","8","p","x"," ","1","6","p","x",";">>
  /\ sourceLines[2] = <<" "," ","w","i","d","t","h",":"," ","1","0","p","x",";"," ","/","*"," ","a","l","s","o"," ","*","/"," ","m","a","r","g","i","n",":"," ","1","r","e","m",";">>
  /\ issuesAt(cssIssues, "preferRelativeUnits", 1) = 1
  /\ issuesAt(cssIssues, "preferRelativeUnits", 2) = 0

\* C14 (as claimed): every line that is not skipped and uses !important gets a
\* noImportant issue at its line number.
C14_ImportantIsReported ==
  cssPc = "validated" =>
    \A k \in DOMAIN sourceLines :
      (checkedLine(sourceLines[k]) /\ includes(sourceLines[k], <<"!","i","m","p","o","r","t","a","n","t">>))
        => issuesAt(cssIssues, "noImportant", k) >= 1

\* the place of a rule in the order the claim gives
ruleRank(rule) ==
  CASE rule = "classNaming" -> 1
    [] rule = "noIds" -> 2
    [] rule = "noUniversal" -> 3
    [] rule = "noImportant" -> 4
    [] rule = "preferRelativeUnits" -> 5
    [] OTHER -> 6

\* C25: the issues validateCSS returns are ordered: the line numbers never
\* decrease, the issues of one line come in the order classNaming, noIds,
\* noUniversal, noImportant and then preferRelativeUnits, and a line gets at
\* most one issue of a rule.
C25_IssuesOrderedByLineThenRule ==
  cssPc = "validated"
    => \A i, j \in DOMAIN cssIssues :
         i < j => \/ cssIssues[i].line < cssIssues[j].line
                  \/ /\ cssIssues[i].line = cssIssues[j].line
                     /\ ruleRank(cssIssues[i].rule) < ruleRank(cssIssues[j].rule)

\* a first line that breaks all five rules and a second line with an issue
C25_Witness ==
  /\ cssPc = "validated"
  /\ Len(cssIssues) >= 6
  /\ [i \in 1..5 |-> <<cssIssues[i].line, cssIssues[i].rule>>]
       = << <<1, "classNaming">>, <<1, "noIds">>, <<1, "noUniversal">>,
            <<1, "noImportant">>, <<1, "preferRelativeUnits">> >>
  /\ cssIssues[6].line = 2

(***************************************************************************)
(* Claims about the type generator, checked under SpecGQL                  *)
(***************************************************************************)
\* the lines between the line that opens `type <typeName>` and the next line
\* that holds a closing brace
RECURSIVE blockLines(_, _, _, _)
blockLines(lines, typeName, k, inside) ==
  IF k > Len(lines) THEN <<>>
  ELSE IF startsWith(trim(lines[k]), <<"t","y","p","e"," ">> \o typeName \o <<" ","{">>)
       THEN blockLines(lines, typeName, k + 1, TRUE)
  ELSE IF ~inside THEN blockLines(lines, typeName, k + 1, FALSE)
  ELSE IF includes(lines[k], <<"}">>) THEN <<>>
  ELSE <<lines[k]>> \o blockLines(lines, typeName, k + 1, TRUE)

\* C2 (as claimed): a field `name: Type!` of the requested type is emitted as
\* required, `name: Type;`, and a field `name: Type` as optional, `name?: Type;`;
\* so for type User with id: ID! and name: String.
C2_NonNullFieldsAreRequired ==
  gqlPc = "returned"
    => \A line \in Range(blockLines(split(gqlSchema, "\n"), gqlTypeName, 1, FALSE)) :
         LET m == fieldMatch(line)
         IN  (m.matched /\ m.bang = <<>>)
               => IF "!" \in Range(m.type)
                  THEN includes(gqlResult.text,
                         <<" "," ">> \o m.name \o <<":"," ">> \o removeFirstBang(m.type) \o <<";">>)
                  ELSE includes(gqlResult.text,
                         <<" "," ">> \o m.name \o <<"?",":"," ">> \o m.type \o <<";">>)

\* the schema declares a type named exactly typeName
declaresType(schema, typeName) ==
  \E line \in Range(split(schema, "\n")) :
    LET t == trim(line)
        n == Len(<<"t","y","p","e"," ">> \o typeName)
    IN  /\ startsWith(t, <<"t","y","p","e"," ">> \o typeName)
        /\ (Len(t) = n \/ t[n + 1] \notin WordChars)

\* C3 (as claimed): when the schema declares no type named exactly typeName,
\* generateFromGraphQL throws "Type <typeName> not found" and returns no text.
C3_AbsentTypeThrows ==
  (gqlPc # "start" /\ ~declaresType(gqlSchema, gqlTypeName))
    => /\ gqlPc = "threw"
       /\ gqlResult.threw
       /\ startsWith(gqlResult.text, <<"T","y","p","e"," ">> \o gqlTypeName \o <<" ","n","o","t"," ","f","o","u","n","d">>)

(***************************************************************************)
(* Claims about the component generator, checked under Spec                *)
(***************************************************************************)
\* this invocation is inside or past createComponent: options is final
InCreateComponent == pc \in {"component", "css", "index", "test", "done", "failed"}

OwnTemplateKeys == {"simple", "interactive", "data", "form"}

given(field) == field \in DOMAIN options

\* C4 (as claimed): for every options.type that is none of simple, interactive,
\* data, form, and when type is absent, createComponent does not fail by itself
\* and the source and CSS files it writes are the ones rendered from the simple
\* templates.
C4_UnknownTypeFallsBackToSimple ==
  (InCreateComponent /\ (given("type") => options.type \notin OwnTemplateKeys))
    => /\ thrown # "TypeError"
       /\ componentFile(componentName) \in written
            => files[componentFile(componentName)]
                 = componentContent(templates.simple, componentName)
       /\ cssFile(componentName) \in written
            => files[cssFile(componentName)]
                 = cssContent(cssTemplates.simple, componentName)

\* C5 (as claimed): with --type=dataFetching --typed the written source is the
\* one rendered from the data-fetching template, which declares the url prop.
C5_DataFetchingUsesDataTemplate ==
  ( /\ InCreateComponent
    /\ given("type") /\ options.type = "dataFetching"
    /\ given("typed") /\ options.typed
    /\ componentFile(componentName) \in written )
    => /\ files[componentFile(componentName)]
            = componentContent(templates.data, componentName)
       /\ includes(files[componentFile(componentName)], <<"  url: string;\n">>)

\* C6: an invocation with styled = false never writes <Name>.module.css, and an
\* invocation with styled = true or unspecified that returns has written it.
C6_StyledDecidesCssFile ==
  /\ (InCreateComponent /\ given("styled") /\ ~options.styled)
       => cssFile(componentName) \notin written
  /\ (pc = "done" /\ (given("styled") => options.styled))
       => /\ cssFile(componentName) \in written
          /\ cssFile(componentName) \in DOMAIN files

C6_Witness ==
  /\ pc = "done"
  /\ given("styled") /\ ~options.styled
  /\ componentFile(componentName) \in written
  /\ cssFile(componentName) \notin DOMAIN files

\* C7 (as claimed): for the four template types, the written <Name>.tsx holds
\* no raw placeholder and holds the component name, and the written
\* <Name>.module.css holds no raw placeholder.
C7_PlaceholdersReplacedByName ==
  (InCreateComponent /\ destructure(options).type \in OwnTemplateKeys)
    => /\ componentFile(componentName) \in written
            => LET c == files[componentFile(componentName)]
               IN  /\ ~includes(c, PhComponentName)
                   /\ ~includes(c, PhcomponentName)
                   /\ includes(c, componentName)
       /\ cssFile(componentName) \in written
            => ~includes(files[cssFile(componentName)], PhcomponentNameChars)

\* C8: while an invocation runs with the options of the last invocation that
\* returned (none having failed since), no step changes the directory or the
\* content of any file: the second run rewrites what the first run wrote.
C8_SecondRunChangesNothing ==
  [][(pc \in {"args", "component", "css", "index", "test"}
        /\ pc' # "args"
        /\ lastRun = destructure(options))
       => (files' = files /\ dirExists' = dirExists)]_vars

\* a second run, about to write its last file: lastRun is still the first run's
C8_Witness ==
  /\ pc = "test"
  /\ lastRun = destructure(options)
  /\ Cardinality(written) = 3
  /\ Cardinality(DOMAIN files) = 4

\* C9: when createComponent has returned, the directory exists and holds
\* <Name>.tsx, index.ts and <Name>.test.tsx, and <Name>.module.css when styled.
C9_FilesExistAfterSuccess ==
  pc = "done"
    => /\ dirExists
       /\ {componentFile(componentName), indexFile, testFile(componentName)}
            \subseteq DOMAIN files
       /\ destructure(options).styled => cssFile(componentName) \in DOMAIN files

C9_Witness ==
  /\ pc = "done"
  /\ destructure(options).styled
  /\ Cardinality(DOMAIN files) = 4

\* C10: the index.ts this invocation wrote exports `type <Name>Props` exactly
\* when typed is true or unspecified, and in both cases re-exports the named
\* component and the default export.
C10_BarrelTypeExport ==
  indexFile \in written
    => LET c == files[indexFile]
       IN  /\ (given("typed") => options.typed)
                <=> includes(c, <<", type ">> \o componentName \o <<"Props } from './">>)
           /\ (given("typed") /\ ~options.typed)
                => \A i \in DOMAIN c : c[i] # ", type "
           /\ includes(c, <<"export { ">> \o componentName)
           /\ includes(c, <<"export { default } from './">> \o componentName)

C10_Witness ==
  /\ indexFile \in written
  /\ given("typed") /\ ~options.typed
  /\ ~includes(files[indexFile], <<", type ">>)

\* the files createComponent writes for the given options, in the order the
\* claim gives
writeOrder(o) ==
  <<componentFile(componentName)>>
    \o (IF o.styled THEN <<cssFile(componentName)>> ELSE <<>>)
    \o <<indexFile, testFile(componentName)>>

\* the content this invocation gives a file it writes
newContent(file) ==
  LET o == destructure(options)
  IN  IF file = componentFile(componentName)
      THEN componentContent(lookupTemplate(templates, o.type).text, componentName)
      ELSE IF file = cssFile(componentName)
      THEN cssContent(lookupTemplate(cssTemplates, o.type).text, componentName)
      ELSE IF file = indexFile THEN indexContent(componentName, o.typed)
      ELSE testContent(componentName)

\* what this invocation has written is a beginning of the order; after a
\* failure the status is 1 and every file written holds its new content
writesInOrder ==
  InCreateComponent
    => LET order == writeOrder(destructure(options))
       IN  /\ \E k \in 0..Len(order) : written = Range(SubSeq(order, 1, k))
           /\ pc = "failed"
                => /\ exitCode = 1
                   /\ \A f \in written : f \in DOMAIN files /\ files[f] = newContent(f)

\* C24: createComponent writes <Name>.tsx, <Name>.module.css (when styled),
\* index.ts, <Name>.test.tsx in this order, one file a step; when a write fails
\* the process exits with status 1, the files written before it keep their new
\* content, the failing step and the steps after it write no file, and nothing
\* is rolled back.
C24_WritesInOrderNoRollback ==
  [][/\ writesInOrder
     /\ (written' # written /\ written' # {})
          => Cardinality(written') = Cardinality(written) + 1
     /\ (pc = "failed" \/ pc' = "failed") => files' = files]_vars

\* the third write of a styled invocation failed: the source and the stylesheet
\* are there with their new content, index.ts is not
C24_Witness ==
  /\ pc = "failed"
  /\ thrown = "fs"
  /\ exitCode = 1
  /\ destructure(options).styled
  /\ written = {componentFile(componentName), cssFile(componentName)}
  /\ files[componentFile(componentName)] = newContent(componentFile(componentName))
  /\ files[cssFile(componentName)] = newContent(cssFile(componentName))
  /\ indexFile \notin DOMAIN files

\* the files createComponent may create or overwrite for the given options
ownFiles(o) == Range(writeOrder(o))

\* C27: a step of createComponent creates or overwrites no file but
\* <Name>.tsx, <Name>.module.css (when styled), index.ts and <Name>.test.tsx of
\* components/<Name>/, and deletes no file; so every other file of the directory
\* stays as it is, and the <Name>.module.css of a styled run is still there,
\* unchanged, after a run with styled = false.
C27_OnlyOwnFilesTouched ==
  [][/\ \A f \in DOMAIN files : f \in DOMAIN files'
     /\ \A f \in DOMAIN files' :
          (f \notin DOMAIN files \/ files'[f] # files[f])
            => f \in ownFiles(destructure(options))]_vars

\* a run with styled = false has returned in a directory that held the user's
\* file and the stylesheet of an earlier styled run: both are as they were
C27_Witness ==
  /\ pc = "done"
  /\ given("styled") /\ ~options.styled
  /\ cssFile(componentName) \notin written
  /\ cssFile(componentName) \in DOMAIN files
  /\ \E t \in OwnTemplateKeys :
       files[cssFile(componentName)] = cssContent(cssTemplates[t], componentName)
  /\ <<"README.md">> \in DOMAIN files
  /\ files[<<"README.md">>] = ForeignFiles[<<"README.md">>]

\* the pieces of a generated text that open a relative module path, and the
\* pieces that close one with the extension they hold
PathOpeners ==
  {"import styles from './", "Props } from './", " } from './", "export { default } from './"}

PathClosers == {".module.css';\n", "';\n", "';"}

extensionIn(piece) == IF piece = ".module.css';\n" THEN <<".module.css">> ELSE <<>>

\* the relative module paths a generated text imports or re-exports from: what
\* stands between './ and the closing quote, as path and extension
relativeImports(content) ==
  { LET j == CHOOSE k \in (i + 1)..Len(content) :
                /\ content[k] \in PathClosers
                /\ \A m \in (i + 1)..(k - 1) : content[m] \notin PathClosers
    IN  [path |-> SubSeq(content, i + 1, j - 1), extension |-> extensionIn(content[j])]
    : i \in {k \in DOMAIN content : content[k] \in PathOpeners} }

\* module resolution inside the directory: a path with an extension names the
\* file, a path without one names the .ts or .tsx file
resolves(import, dir) ==
  IF import.extension # <<>> THEN import.path \o import.extension \in dir
  ELSE import.path \o <<".ts">> \in dir \/ import.path \o <<".tsx">> \in dir

\* C29 (as claimed): when createComponent has returned and the directory holds
\* nothing but what this invocation wrote, every file that <Name>.tsx and
\* index.ts import by a relative path is in the directory, whatever type,
\* styled and typed are; so is ./<Name>.module.css, which every template
\* imports.
C29_RelativeImportsResolve ==
  (pc = "done" /\ DOMAIN files = written)
    => \A f \in {componentFile(componentName), indexFile} :
         \A import \in relativeImports(files[f]) : resolves(import, DOMAIN files)

(***************************************************************************)
(* Claims about the command lines of the three tools, checked under SpecCLI *)
(***************************************************************************)
\* the type generator's command line lacks the command, the schema file or the
\* type name
tgArgumentMissing ==
  \/ Len(tgArgs) < 3
  \/ tgArgs[2] = <<>>
  \/ tgArgs[3] = <<>>

\* C11: a tool started without a required argument (generator: the component
\* name; validator: the command, or the path of `file`; type generator: the
\* command, the schema file or the type name) exits with status 1, and has
\* created no directory and written no file when it exits.
C11_MissingArgumentExitsOne ==
  /\ (pc \notin {"off", "idle"} /\ componentName = <<>>)
       => /\ pc = "usage"
          /\ exitCode = 1
          /\ ~dirExists
          /\ files = <<>>
          /\ written = {}
  /\ (valPc \notin {"off", "start"} /\ valArgs \in {<<>>, <<"file">>})
       => /\ valPc = "exited"
          /\ valExit = 1
          /\ valReports = <<>>
          /\ vfs \in {Tree(a, b) : a \in ModuleStates, b \in ModuleStates}
  /\ (tgPc \notin {"off", "start"} /\ tgArgumentMissing)
       => /\ tgPc = "exited"
          /\ tgExit = 1
          /\ DOMAIN tgFiles = {<<"u","s","e","r",".","j","s","o","n">>, <<"n","u","l","l",".","j","s","o","n">>, <<"s","c","h","e","m","a",".","g","r","a","p","h","q","l">>}
          /\ tgFiles[<<"u","s","e","r",".","j","s","o","n">>] = UserJsonText

\* the type generator was given a command and a schema file but no type name
C11_Witness ==
  /\ tgPc = "exited"
  /\ tgArgs = << <<"j","s","o","n">>, <<"u","s","e","r",".","j","s","o","n">> >>
  /\ tgExit = 1
  /\ tgError = <<"JSON schema file and type name are required">>

(***************************************************************************)
(* Claims about the style validator's command line, checked under SpecVal  *)
(***************************************************************************)
\* the step calls validateFile once more
validateFileCalled == Len(valReports') = Len(valReports) + 1

\* the file and the issues of the last validateFile call
lastReport == valReports[Len(valReports)]

\* the number of lines of the file, 0 when it cannot be read
lineCount(fsys, filePath) ==
  IF readFileSync(fsys, filePath).ok
  THEN Len(split(readFileSync(fsys, filePath).content, "\n"))
  ELSE 0

\* C15 (as claimed): every issue validateFile returns, whatever the path and
\* the content, carries a line number from 1 to the number of lines of the file.
C15_LinesAreOneBased ==
  [][validateFileCalled =>
       \A i \in DOMAIN lastReport'.issues :
         /\ lastReport'.issues[i].line >= 1
         /\ lastReport'.issues[i].line <= lineCount(vfs, lastReport'.file)]_vars

\* C15 (amended): every issue validateFile returns for a file it can read
\* carries a line number from 1 to the number of lines of the file; for a path
\* it cannot read it returns a single fileError issue, whose line is 0.
C15_LinesAreOneBasedWhenRead ==
  [][validateFileCalled =>
       IF readFileSync(vfs, lastReport'.file).ok
       THEN \A i \in DOMAIN lastReport'.issues :
              /\ lastReport'.issues[i].line >= 1
              /\ lastReport'.issues[i].line <= lineCount(vfs, lastReport'.file)
       ELSE /\ Len(lastReport'.issues) = 1
            /\ lastReport'.issues[1].rule = "fileError"
            /\ lastReport'.issues[1].line = 0]_vars

\* a directory run that validated a module with an issue on its second line
\* and then a module it could not read
C15_Witness ==
  /\ valPc = "exited"
  /\ Len(valReports) = 2
  /\ \E i \in DOMAIN valReports[1].issues : valReports[1].issues[i].line = 2
  /\ Len(valReports[2].issues) = 1
  /\ valReports[2].issues[1].rule = "fileError"
  /\ valReports[2].issues[1].line = 0

\* the run is a run of the given command
runs(command) == valArgs # <<>> /\ valArgs[1] = command

\* the directory given to dir or watch is there
dirListable == dirArg \in DOMAIN vfs /\ vfs[dirArg].kind = "dir"

\* the files below the directory, at any depth, whose name ends in .module.css
modulesUnder(fsys, dir) ==
  {p \in DOMAIN fsys :
     /\ fsys[p].kind = "file"
     /\ Len(p) > Len(dir)
     /\ SubSeq(p, 1, Len(dir)) = dir
     /\ endsWith(p[Len(p)], <<".","m","o","d","u","l","e",".","c","s","s">>)}

\* C16: in dir mode a module that cannot be read gets exactly one fileError
\* issue and the run goes on: when it ends, every module below the directory
\* has been validated once and the summary has been printed.
C16_ReadFailureDoesNotAbort ==
  (runs("dir") /\ dirListable) =>
    /\ \A k \in DOMAIN valReports :
         ~readFileSync(vfs, valReports[k].file).ok
           => /\ Len(valReports[k].issues) = 1
              /\ valReports[k].issues[1].rule = "fileError"
    /\ valPc = "exited"
         => /\ {valReports[k].file : k \in DOMAIN valReports} = modulesUnder(vfs, dirArg)
            /\ Len(valReports) = Cardinality(modulesUnder(vfs, dirArg))
            /\ valLog[Len(valLog)] = "Summary"

\* the first module of the run could not be read, the second was validated
\* and found flawed, and the summary was printed
C16_Witness ==
  /\ runs("dir")
  /\ valPc = "exited"
  /\ Len(valReports) = 2
  /\ Len(valReports[1].issues) = 1
  /\ valReports[1].issues[1].rule = "fileError"
  /\ Len(valReports[2].issues) = 2
  /\ valLog[Len(valLog)] = "Summary"
  /\ valTotal = 3

\* the sum of the issue counts of the files of the set
RECURSIVE issueSum(_, _)
issueSum(fsys, paths) ==
  IF paths = {} THEN 0
  ELSE LET p == CHOOSE q \in paths : TRUE
       IN  Len(validateFile(fsys, p)) + issueSum(fsys, paths \ {p})

C18_MissingWatchTargetIsFatal ==
  (runs("watch") /\ dirArg \notin DOMAIN vfs)
    => /\ valPc \in {"start", "exited"}
       /\ watcher = "none"

\* C19: the SIGINT handler closes the watcher before it ends the process, the
\* exit status is 0, and no change event is handled once it has run.
C19_SigintClosesThenExits ==
  [][/\ (valPc = "watching" /\ valPc' = "exited")
          => /\ watcher' = "closed"
             /\ valExit' = 0
     /\ (runs("watch") /\ valPc = "exited")
          => /\ valReports' = valReports
             /\ pending' = pending]_vars

\* the process was interrupted after one pass, with one more event waiting
C19_Witness ==
  /\ runs("watch")
  /\ valPc = "exited"
  /\ watcher = "closed"
  /\ valExit = 0
  /\ Len(valReports) = 1
  /\ Len(pending) = 1

\* C20: every change event gets one validation pass of the changed file, one
\* pass at a time and in the order of arrival: a step either takes in one more
\* event or turns the oldest waiting event into the next pass, and every event
\* so far has been passed or is waiting.
C20_OnePassPerChangeEvent ==
  /\ [](runs("watch") /\ valPc = "watching"
          => Len(valReports) + Len(pending) = nEvents)
  /\ [][(runs("watch") /\ (pending' # pending \/ valReports' # valReports))
          => \/ /\ nEvents' = nEvents + 1
                /\ Len(pending') = Len(pending) + 1
                /\ SubSeq(pending', 1, Len(pending)) = pending
                /\ valReports' = valReports
             \/ /\ pending # <<>>
                /\ pending' = Tail(pending)
                /\ valReports' =
                     Append(valReports,
                            [file |-> Head(pending),
                             issues |-> validateFile(vfs, Head(pending))])
                /\ nEvents' = nEvents]_vars

\* two changes of the same file in a row got two passes
C20_Witness ==
  /\ valPc = "watching"
  /\ nEvents = 2
  /\ pending = <<>>
  /\ Len(valReports) = 2
  /\ valReports[1].file = valReports[2].file

(***************************************************************************)
(* Claims about generateFromJSON, checked under SpecJSON                   *)
(***************************************************************************)

\* the lines between the opening line of the first interface of a generated
\* text and the first line that closes it
interfaceBody(text) ==
  LET lines == split(text, "\n")
      close == CHOOSE i \in 2..Len(lines) :
                 /\ lines[i] = <<"}">>
                 /\ \A j \in 2..(i - 1) : lines[j] # <<"}">>
  IN  SubSeq(lines, 2, close - 1)

\* the field lines among them: neither empty nor a doc comment
fieldLines(text) ==
  SelectSeq(interfaceBody(text), LAMBDA l : l # <<>> /\ ~startsWith(l, <<" "," ","/","*","*">>))

\* the TypeScript type the table of the claim gives a property schema
tableType(prop) ==
  LET type == IF "type" \in DOMAIN prop THEN prop.type ELSE <<>>
  IN  CASE type = <<"s","t","r","i","n","g">> -> <<"s","t","r","i","n","g">>
        [] type = <<"n","u","m","b","e","r">> -> <<"n","u","m","b","e","r">>
        [] type = <<"b","o","o","l","e","a","n">> -> <<"b","o","o","l","e","a","n">>
        [] type = <<"a","r","r","a","y">> ->
             (IF "items" \in DOMAIN prop /\ "type" \in DOMAIN prop.items
              THEN prop.items.type ELSE <<"a","n","y">>) \o <<"[","]">>
        [] type = <<"o","b","j","e","c","t">> ->
             (IF "additionalProperties" \in DOMAIN prop /\ prop.additionalProperties = TRUE
              THEN <<"R","e","c","o","r","d","<","s","t","r","i","n","g",","," ","a","n","y",">">> ELSE <<"o","b","j","e","c","t">>)
        [] OTHER -> <<"a","n","y">>

\* the field line the claim gives the i-th property of a schema
tableLine(schema, i) ==
  LET entry == schema.properties[i]
      required == "required" \in DOMAIN schema /\ entry.key \in Range(schema.required)
  IN  <<" "," ">> \o entry.key \o (IF required THEN <<>> ELSE <<"?">>) \o <<":"," ">>
        \o tableType(entry.value) \o <<";">>

\* C21: for a schema with a properties map, generateFromJSON emits exactly one
\* field line per property, in the order of the properties; the line is
\* "name: T;" for a name in the required list and "name?: T;" otherwise (every
\* field optional when the list is absent), with T taken from the table
\* string, number, boolean, <items.type>[] or any[], Record<string, any> or
\* object, and any for every other type.
C21_OneFieldLinePerProperty ==
  (jsonPc = "returned" /\ "properties" \in DOMAIN jsonGiven)
    => fieldLines(jsonResult.text)
         = [i \in DOMAIN jsonGiven.properties |-> tableLine(jsonGiven, i)]

\* a schema of two properties was translated: a required array without items
\* and an optional object that is open to additional properties
C21_Witness ==
  /\ jsonPc = "returned"
  /\ "properties" \in DOMAIN jsonGiven
  /\ "required" \in DOMAIN jsonGiven
  /\ Len(jsonGiven.properties) = 2
  /\ jsonGiven.properties[1].key \in Range(jsonGiven.required)
  /\ jsonGiven.properties[1].value = [type |-> <<"a","r","r","a","y">>]
  /\ jsonGiven.properties[2].key \notin Range(jsonGiven.required)
  /\ jsonGiven.properties[2].value = [type |-> <<"o","b","j","e","c","t">>, additionalProperties |-> TRUE]
  /\ fieldLines(jsonResult.text)
       = << <<" "," ">> \o jsonGiven.properties[1].key \o <<":"," ","a","n","y","[","]",";">>,
            <<" "," ">> \o jsonGiven.properties[2].key \o <<"?",":"," ","R","e","c","o","r","d","<","s","t","r","i","n","g",","," ","a","n","y",">",";">> >>

(***************************************************************************)
(* Claims about both schema readers, checked under SpecTypes               *)
(***************************************************************************)

\* the calls that returned a text: the type name given and the text
returnedTexts ==
  (IF gqlPc = "returned" THEN {[name |-> gqlTypeName, text |-> gqlResult.text]} ELSE {})
    \cup (IF jsonPc = "returned"
          THEN {[name |-> jsonTypeName, text |-> jsonResult.text]} ELSE {})

\* the text between the braces of the first of two interfaces N and NProps that
\* hold the same text: what is left of the text, halved
pairBody(name, text) ==
  LET opening == Len(<<"e","x","p","o","r","t"," ","i","n","t","e","r","f","a","c","e"," ">> \o name \o <<" ","{","\n">>)
      rest == Len(<<"\n","}","\n","\n","e","x","p","o","r","t"," ","i","n","t","e","r","f","a","c","e"," ">> \o name \o <<"P","r","o","p","s"," ","{","\n">>) + Len(<<"\n","}","\n">>)
      double == Len(text) - opening - rest
  IN  IF double < 0 \/ double % 2 # 0 THEN <<>>
      ELSE SubSeq(text, opening + 1, opening + (double \div 2))

\* the text is interface N, then interface NProps with the same body
isInterfacePair(name, text) ==
  text = <<"e","x","p","o","r","t"," ","i","n","t","e","r","f","a","c","e"," ">> \o name \o <<" ","{","\n">> \o pairBody(name, text)
           \o <<"\n","}","\n","\n","e","x","p","o","r","t"," ","i","n","t","e","r","f","a","c","e"," ">> \o name \o <<"P","r","o","p","s"," ","{","\n">> \o pairBody(name, text)
           \o <<"\n","}","\n">>

\* C22: for every type name N, on the JSON path and on the GraphQL path alike,
\* the emitted text is "export interface N { ... }" followed by
\* "export interface NProps { ... }" holding the same field lines in the same
\* order; no interface extends another, and an empty field list yields the two
\* interfaces with empty bodies.
C22_InterfaceAndPropsTwin ==
  \A r \in returnedTexts :
    /\ isInterfacePair(r.name, r.text)
    /\ ~includes(r.text, <<"e","x","t","e","n","d","s">>)

\* generateFromGraphQL returned two interfaces with at least one field line
C22_Witness ==
  /\ gqlPc = "returned"
  /\ isInterfacePair(gqlTypeName, gqlResult.text)
  /\ includes(pairBody(gqlTypeName, gqlResult.text), <<":"," ">>)

(***************************************************************************)
(* Claims about the type generator's command line, checked under SpecTG    *)
(***************************************************************************)

\* the failures the claim lists: an argument is missing, the command is
\* unknown, the schema file cannot be read, the schema file of `json` is no
\* JSON, the schema of `graphql` declares no type of the name asked for
tgFailureListed ==
  \/ tgArgumentMissing
  \/ tgArgs[1] \notin {<<"j","s","o","n">>, <<"g","r","a","p","h","q","l">>}
  \/ tgArgs[2] \notin DOMAIN TgFilesAtStart
  \/ (tgArgs[1] = <<"j","s","o","n">> /\ JSONparse(TgFilesAtStart[tgArgs[2]]).threw)
  \/ (tgArgs[1] = <<"g","r","a","p","h","q","l">> /\ ~declaresType(TgFilesAtStart[tgArgs[2]], tgArgs[3]))

\* C23 (as claimed): the type generator exits with status 1 and writes no
\* output file when an argument is missing, the command is unknown, the schema
\* file is unreadable, the schema file is not valid JSON (json) or the type name
\* is not found in the schema (graphql); an output file is written only by a
\* run whose generation succeeded.
C23_FailuresExitOneWithoutOutput ==
  tgPc = "exited"
    => /\ tgFailureListed => (tgExit = 1 /\ tgFiles = TgFilesAtStart)
       /\ tgFiles # TgFilesAtStart => (tgExit = 0 /\ ~tgFailureListed)

(***************************************************************************)
(* Claims about generated stylesheets, checked under SpecGenCSS            *)
(***************************************************************************)

\* C30 (as claimed): the stylesheet createComponent writes passes validateCSS
\* with no issue, for each of the template types simple, interactive, data and
\* form and every component name that starts with a lowercase letter and holds
\* letters and digits only.
C30_GeneratedCssIsClean ==
  cssPc = "validated" => cssIssues = <<>>

\* C26: in watch mode a pass that finds issues, a fileError issue included,
\* neither ends the process nor sets an exit status: whatever the passes so far
\* have found, the process is watching with its watcher registered and no exit
\* status, and every change event so far has had its pass or waits for it; the
\* process has ended only if the interrupt handler closed the watcher and left
\* with status 0.
C26_IssuesNeverEndWatch ==
  runs("watch")
    => /\ valPc \in {"start", "watching", "exited"}
       /\ valPc = "watching"
            => /\ watcher = "open"
               /\ valExit = "none"
               /\ Len(valReports) + Len(pending) = nEvents
       /\ valPc = "exited"
            => /\ watcher = "closed"
               /\ valExit = 0

\* two passes have found issues, the first could not read its file, and the
\* process is still watching with one more change event waiting
C26_Witness ==
  /\ runs("watch")
  /\ valPc = "watching"
  /\ watcher = "open"
  /\ Len(valReports) = 2
  /\ valReports[1].issues # <<>>
  /\ valReports[1].issues[1].rule = "fileError"
  /\ valReports[2].issues # <<>>
  /\ valReports[2].issues[1].rule # "fileError"
  /\ Len(pending) = 1

(***************************************************************************)
(* Claims about useDebouncedSearch, checked under SpecHook                 *)
(***************************************************************************)

\* C28 (as claimed): results is only updated by a request that was not
\* aborted: once the cleanup of its effect has aborted the controller of a
\* search call, because a later debounced query took its place, the response
\* of that call is never stored in results, in whatever order the promises
\* settle.
C28_AbortedResponseNeverStored ==
  [][(hkResults' # hkResults /\ hkResults' # 0) => hkResults' \notin hkAborted]_vars

=============================================================================
